---- MODULE Spec2Model ----
(***************************************************************************)
(* Model of internal/collector PeriodicTrigger (data_server.go).           *)
(*                                                                         *)
(* The PeriodicTrigger fields stopCh, startOnce, stopOnce, triggerCtx and  *)
(* triggerCtxCancelFunc are pointers that reset() overwrites; the objects  *)
(* they point to (channels, sync.Once values, contexts) live on the heap   *)
(* and are identified here by the number of the reset() call that made     *)
(* them (0 = the reset() run by NewPeriodicTrigger).                       *)
(*                                                                         *)
(* Goroutines: the callers of Start() (StartThreads), the callers of       *)
(* Stop() (StopThreads), and per start() run one stop-listener goroutine   *)
(* and one time.Ticker.  The loads and stores of the shared fields, the     *)
(* channel operations and the Once operations are steps of their own       *)
(* (statements are joined only where noted), so the unsynchronised         *)
(* accesses of the code interleave freely.  A local variable is set back   *)
(* to NoId once the code no longer uses it.                                *)
(*                                                                         *)
(* The task the collector hands to its PeriodicTrigger is                  *)
(* DataPointUseCase.Collect (usecase/datapoint.go): one run fetches a      *)
(* record from the data server (client package), decodes it, decides where *)
(* it goes and writes it.  A run is modelled on its own, for every input   *)
(* of a bounded set (CollectSpec); the specifications of the trigger leave *)
(* the variables of the run alone.                                         *)
(*                                                                         *)
(* The HTTP handler ChiServer.DataPointQuery (transport/http/server.go)    *)
(* parses the bounds of the request, has the repository query the storage  *)
(* and streams the rows as a JSON array.  A run is modelled on its own as  *)
(* well, step by step (QuerySpec).                                         *)
(*                                                                         *)
(* LoadConfigFromFile (cmd/config.go) reads the configuration file,        *)
(* decodes it and fills what it leaves empty from DefaultConfig; a run is  *)
(* modelled for every file of a bounded set (ConfigSpec).                  *)
(*                                                                         *)
(* main (cmd) starts the collector in a goroutine of its own and, on a     *)
(* shutdown signal, stops it, waits for that goroutine and shuts the HTTP  *)
(* server and the storage client down (MainSpec): the Start() call of the  *)
(* goroutine and the Stop() call of main are the calls of the first        *)
(* Start() and Stop() callers of the trigger.                              *)
(***************************************************************************)
EXTENDS Integers, FiniteSets, Sequences, TLC

\* Number of Start() calls made during a run.  Every call is made by a
\* goroutine of its own: a Start() call never returns (see LoopSelect).
MaxStartCalls == 2
\* Number of Stop() calls made during a run.  Every call is made by a
\* goroutine of its own, so that any number of them can be under way at
\* once; calls made one after the other by one goroutine are the runs in
\* which a call is made only after the one before has returned.
MaxStopCalls == 2

\* The goroutines are numbered in the order in which they make their call.
StartThreads == 1..MaxStartCalls
StopThreads == 1..MaxStopCalls
\* Heap object identifiers: one set of objects per reset() call.
Ids == 0..MaxStopCalls
NoId == -1

\* time.NewTicker (line 73): the channel ticker.C holds one tick.
TickerCap == 1

VARIABLES
    \* fields of PeriodicTrigger (identifier of the object pointed to)
    stopCh, startOnce, stopOnce, triggerCtx, triggerCtxCancelFunc,
    \* heap
    nextId,        \* identifier the next reset() call hands out
    chanLen,       \* chanLen[i]: values buffered in stop channel i (cap 1)
    chanClosed,    \* chanClosed[i]: stop channel i has been closed
    startOnceSt,   \* state of sync.Once i used for start
    stopOnceSt,    \* state of sync.Once i used for stop
    ctxDone,       \* ctxDone[i]: context i has been cancelled
    panicked,      \* a goroutine panicked (the process is gone)
    \* Start() callers
    spc, sOnce, sCtx, inflight,
    \* per start() run: ticker and stop-listener goroutine
    ticker, tickPending, lpc, lCh,
    \* Stop() callers
    tpc, tOnce, tNew,
    \* history of the calls made by the environment
    quiet, stopSince, stopDuring,
    idleStop,      \* idleStop[t]: the Stop() call of t was made on an idle
                   \* scheduler
    \* result of the task (triggerFn), which the caller supplies
    lastErr,       \* lastErr[s]: the last triggerFn call of run s returned an
                   \* error and no call has been started since
    \* one run of DataPointUseCase.Collect
    cIn,           \* what the run meets: the response of the data server, the
                   \* clock, the outcome of the storage write
    cpc,           \* position of the run
    cDp,           \* the client.DataPoint returned by Read
    calls,         \* the calls the client has made, in order
    cErr,          \* the error Collect returns
    cLog,          \* the attributes of the log lines Collect writes
    writes,        \* the points handed to influxdb3 WritePoints, in order
    \* one run of ChiServer.DataPointQuery
    qIn,           \* what the run meets: the request parameters, the rows of
                   \* the table, the write of the response that fails
    qpc,           \* position of the run
    qStart, qUntil, \* the parsed bounds (start, until)
    issued,        \* the queries handed to influxdb3 QueryWithParameters
    cursor,        \* the rows resultIter has not yet advanced over
    qi,            \* the counter i of the items written
    qDp,           \* the dto.DataPoint of the current row
    qStatus,       \* the status of the response (0: none set)
    qBody,         \* what has been written to the response, in order
    wcount,        \* the number of writes to the response made so far
    advances,      \* the number of resultIter.Next() calls made so far
    qLog,          \* the messages of the log lines DataPointQuery writes
    \* one run of LoadConfigFromFile
    fIn,           \* what the run meets: the file at the path, if any
    fpc,           \* position of the run
    fB,            \* the content os.ReadFile returned
    fCfg,          \* the local cfg
    fRet,          \* what the run returns: the Config and the error
    \* main: the collector goroutine and the shutdown path
    mpc,           \* position of main
    gpc,           \* position of the goroutine that calls dataCollector.Start()
    wg             \* the counter of dataCollectorWg

fields == <<stopCh, startOnce, stopOnce, triggerCtx, triggerCtxCancelFunc>>
heap == <<nextId, chanLen, chanClosed, startOnceSt, stopOnceSt, ctxDone, panicked>>
startVars == <<spc, sOnce, sCtx, inflight>>
genVars == <<ticker, tickPending, lpc, lCh>>
stopVars == <<tpc, tOnce, tNew>>
history == <<quiet, stopSince, stopDuring, lastErr>>
triggerVars == <<fields, heap, startVars, genVars, stopVars, history, idleStop>>
collectVars == <<cIn, cpc, cDp, calls, cErr, cLog, writes>>
queryVars == <<qIn, qpc, qStart, qUntil, issued, cursor, qi, qDp, qStatus, qBody,
               wcount, advances, qLog>>
configVars == <<fIn, fpc, fB, fCfg, fRet>>
mainVars == <<mpc, gpc, wg>>
cmdVars == <<configVars, mainVars>>
vars == <<triggerVars, collectVars, queryVars, cmdVars>>

\* The state of the scheduler proper: its fields and the objects behind them.
schedulerState == <<fields, heap>>

\* Program counters of a Start() caller that is inside start().
InBody == {"init_task", "loop", "tick_task"}
\* Program counters of a Start() caller whose periodic loop is running.
InLoop == {"loop", "tick_task"}

TypeOK ==
    /\ stopCh \in Ids /\ startOnce \in Ids /\ stopOnce \in Ids
    /\ triggerCtx \in Ids /\ triggerCtxCancelFunc \in Ids
    /\ nextId \in 1..(MaxStopCalls + 1)
    /\ chanLen \in [Ids -> 0..1]
    /\ chanClosed \in [Ids -> BOOLEAN]
    /\ startOnceSt \in [Ids -> {"fresh", "running"}]
    /\ stopOnceSt \in [Ids -> {"fresh", "running", "done"}]
    /\ ctxDone \in [Ids -> BOOLEAN]
    /\ panicked \in BOOLEAN
    /\ spc \in [StartThreads -> {"idle", "do", "blocked", "returned"} \cup InBody]
    /\ sOnce \in [StartThreads -> Ids \cup {NoId}]
    /\ sCtx \in [StartThreads -> Ids \cup {NoId}]
    /\ inflight \in [StartThreads -> 0..1]
    /\ ticker \in [StartThreads -> {"none", "active", "stopped"}]
    /\ tickPending \in [StartThreads -> 0..TickerCap]
    /\ lpc \in [StartThreads -> {"none", "select", "recv", "cancel", "tstop", "wait"}]
    /\ lCh \in [StartThreads -> Ids \cup {NoId}]
    /\ tpc \in [StopThreads -> {"idle", "do", "stop", "reset", "r59", "done"}]
    /\ tOnce \in [StopThreads -> Ids \cup {NoId}]
    /\ tNew \in [StopThreads -> Ids \cup {NoId}]
    /\ quiet \in BOOLEAN
    /\ stopSince \in [StartThreads -> {"no", "overlap", "called"}]
    /\ stopDuring \in [StartThreads -> BOOLEAN]
    /\ lastErr \in [StartThreads -> BOOLEAN]
    /\ idleStop \in [StopThreads -> BOOLEAN]
    /\ mpc \in {"off", "select", "stop", "shutdown", "close", "done", "panicked"}
    /\ gpc \in {"off", "spawned", "added"}
    /\ wg \in 0..1
    /\ cpc \in {"off", "start", "fetched", "done"}
    /\ cDp.Time.Processed \in BOOLEAN /\ cDp.Value.Processed \in BOOLEAN
    /\ Len(writes) <= 1
    /\ Len(calls) <= 3

\* NewPeriodicTrigger: the fields are set by the first reset() call.
TriggerInit ==
    /\ stopCh = 0 /\ startOnce = 0 /\ stopOnce = 0
    /\ triggerCtx = 0 /\ triggerCtxCancelFunc = 0
    /\ nextId = 1
    /\ chanLen = [i \in Ids |-> 0]
    /\ chanClosed = [i \in Ids |-> FALSE]
    /\ startOnceSt = [i \in Ids |-> "fresh"]
    /\ stopOnceSt = [i \in Ids |-> "fresh"]
    /\ ctxDone = [i \in Ids |-> FALSE]
    /\ panicked = FALSE
    /\ spc = [s \in StartThreads |-> "idle"]
    /\ sOnce = [s \in StartThreads |-> NoId]
    /\ sCtx = [s \in StartThreads |-> NoId]
    /\ inflight = [s \in StartThreads |-> 0]
    /\ ticker = [s \in StartThreads |-> "none"]
    /\ tickPending = [s \in StartThreads |-> 0]
    /\ lpc = [s \in StartThreads |-> "none"]
    /\ lCh = [s \in StartThreads |-> NoId]
    /\ tpc = [t \in StopThreads |-> "idle"]
    /\ tOnce = [t \in StopThreads |-> NoId]
    /\ tNew = [t \in StopThreads |-> NoId]
    /\ quiet = FALSE
    /\ stopSince = [s \in StartThreads |-> "no"]
    /\ stopDuring = [s \in StartThreads |-> FALSE]
    /\ lastErr = [s \in StartThreads |-> FALSE]
    /\ idleStop = [t \in StopThreads |-> FALSE]

----------------------------------------------------------------------------
(***************************************************************************)
(* The data server client (package client) and the decoding of a record.   *)
(*                                                                         *)
(* A raw JSON value is kept in the form the decoder is handed it: the time *)
(* as the characters of its text, the value as an array of numbers (or     *)
(* null, or a string that is no base64), the tags as an array of strings.  *)
(* An instant is the number of seconds since the epoch.  A float32 is its  *)
(* bit pattern, kept as the pair <<high 16 bits, low 16 bits>>.            *)
(***************************************************************************)

\* Longest byte array tried as the value field.
MaxValueLen == 5
\* Longest tag sequence tried.
MaxTags == 2

\* Errors: the layers of the message, outermost first, and the number the
\* innermost layer formats (a length, a status code); nil has no layer.
NilErr == [msg |-> <<>>, got |-> 0]
NewErr(m, n) == [msg |-> <<m>>, got |-> n]
Wrap(m, e) == [e EXCEPT !.msg = <<m>> \o @]
IsErr(e) == e.msg # <<>>

Digits == {"0", "1", "2", "3", "4", "5", "6", "7", "8", "9"}
DigitVal(c) ==
    CASE c = "0" -> 0 [] c = "1" -> 1 [] c = "2" -> 2 [] c = "3" -> 3
      [] c = "4" -> 4 [] c = "5" -> 5 [] c = "6" -> 6 [] c = "7" -> 7
      [] c = "8" -> 8 [] c = "9" -> 9

\* strconv.ParseUint(s, 10, 64) from position i on, acc being the value of
\* the digits read so far.  The texts of the model stay far below 2^63, so
\* the range error is not reached.
RECURSIVE ParseDigits(_, _, _)
ParseDigits(s, i, acc) ==
    IF i > Len(s) THEN [ok |-> TRUE, val |-> acc]
    ELSE IF s[i] \notin Digits THEN [ok |-> FALSE, val |-> 0]
    ELSE ParseDigits(s, i + 1, acc * 10 + DigitVal(s[i]))

\* strconv.ParseInt(s, 10, 64): an optional sign, then at least one digit
\* and nothing but digits.
ParseInt(s) ==
    IF Len(s) = 0 THEN [ok |-> FALSE, val |-> 0]
    ELSE IF s[1] \in {"+", "-"}
         THEN IF Len(s) = 1 THEN [ok |-> FALSE, val |-> 0]
              ELSE LET u == ParseDigits(s, 2, 0)
                   IN  [ok |-> u.ok, val |-> IF s[1] = "-" THEN 0 - u.val ELSE u.val]
         ELSE ParseDigits(s, 1, 0)

\* The zero time.Time (January 1 of year 1) lies before every instant of
\* the model; it stands for itself as the least integer.
ZeroTime == 0 - 2147483647

\* A decoder that takes the text out of its quotes first, and so accepts
\* the seconds written as a JSON string.
DataPointTimeUnmarshalJSONUnquote(data) ==
    LET text == IF Len(data) >= 2 /\ data[1] = "\"" /\ data[Len(data)] = "\""
                THEN SubSeq(data, 2, Len(data) - 1)
                ELSE data
        ts == ParseInt(text)
    IN  IF ~ts.ok
        THEN [err |-> NewErr("failed to parse DataPointTime", 0),
              field |-> [Value |-> ZeroTime, Processed |-> FALSE]]
        ELSE [err |-> NilErr,
              field |-> [Value |-> ts.val, Processed |-> TRUE]]

\* DataPointTime.UnmarshalJSON(data), data being the raw text of the value.
DataPointTimeUnmarshalJSON(data) ==
    LET ts == ParseInt(data)
    IN  IF ~ts.ok
        THEN [err |-> NewErr("failed to parse DataPointTime", 0),
              field |-> [Value |-> ZeroTime, Processed |-> FALSE]]
        ELSE [err |-> NilErr,
              field |-> [Value |-> ts.val, Processed |-> TRUE]]

\* Number of characters of the decimal text of a byte.
DecLen(b) == IF b < 10 THEN 1 ELSE IF b < 100 THEN 2 ELSE 3

RECURSIVE SumDecLen(_, _)
SumDecLen(b, i) == IF i > Len(b) THEN 0 ELSE DecLen(b[i]) + SumDecLen(b, i + 1)

\* len(data) of a raw value: the brackets, the numbers and the commas of a
\* compact array, the four letters of null, a string with its quotes.
RawLen(raw) ==
    CASE raw.kind = "array" ->
             2 + SumDecLen(raw.bytes, 1) + (IF Len(raw.bytes) > 0 THEN Len(raw.bytes) - 1 ELSE 0)
      [] raw.kind = "null" -> 4
      [] raw.kind = "text" -> Len(raw.chars) + 2

\* json.Unmarshal(data, &b) with b a []byte: an array of numbers 0..255
\* gives its bytes, null gives the nil slice, a string that is no base64
\* is an error.
UnmarshalBytes(raw) ==
    CASE raw.kind = "array" -> [ok |-> TRUE, b |-> raw.bytes]
      [] raw.kind = "null" -> [ok |-> TRUE, b |-> <<>>]
      [] raw.kind = "text" -> [ok |-> FALSE, b |-> <<>>]

\* A reading of the four bytes with the high byte first
\* (binary.BigEndian.Uint32).
BigEndianUint32(b) == <<b[1] * 256 + b[2], b[3] * 256 + b[4]>>

\* binary.LittleEndian.Uint32(b): b[0] | b[1]<<8 | b[2]<<16 | b[3]<<24
\* (the Go indices 0..3 are 1..4 here), as <<high 16 bits, low 16 bits>>.
LittleEndianUint32(b) == <<b[4] * 256 + b[3], b[2] * 256 + b[1]>>

\* math.Float32frombits: the float32 that has this bit pattern.
Float32frombits(bits) == bits

\* A decoder that lets a value of another length than 4 pass as a field
\* that was not decoded.
DataPointValueUnmarshalJSONLenient(data) ==
    LET u == UnmarshalBytes(data)
        zero == [Value |-> <<0, 0>>, Processed |-> FALSE]
    IN  IF ~u.ok
        THEN [err |-> NewErr("failed to unmarshal DataPointValue", 0), field |-> zero]
        ELSE IF Len(u.b) # 4
        THEN [err |-> NilErr, field |-> zero]
        ELSE [err |-> NilErr,
              field |-> [Value |-> Float32frombits(LittleEndianUint32(u.b)),
                         Processed |-> TRUE]]

\* DataPointValue.UnmarshalJSON(data).  The length the error reports is
\* len(data), the length of the raw text.
DataPointValueUnmarshalJSON(data) ==
    LET u == UnmarshalBytes(data)
        zero == [Value |-> <<0, 0>>, Processed |-> FALSE]
    IN  IF ~u.ok
        THEN [err |-> NewErr("failed to unmarshal DataPointValue", 0), field |-> zero]
        ELSE IF Len(u.b) # 4
        THEN [err |-> NewErr("invalid data length for DataPointValue, expected 4 bytes",
                             RawLen(data)),
              field |-> zero]
        ELSE [err |-> NilErr,
              field |-> [Value |-> Float32frombits(LittleEndianUint32(u.b)),
                         Processed |-> TRUE]]

\* Value[[]string].UnmarshalJSON(data): an array of strings.
ValueUnmarshalJSON(data) ==
    IF data.kind = "array"
    THEN [err |-> NilErr, field |-> [Value |-> data.items, Processed |-> TRUE]]
    ELSE [err |-> NewErr("failed to unmarshal value", 0),
          field |-> [Value |-> <<>>, Processed |-> FALSE]]

\* DataPoint{}: no field processed.
ZeroDataPoint ==
    [Time |-> [Value |-> ZeroTime, Processed |-> FALSE],
     Value |-> [Value |-> <<0, 0>>, Processed |-> FALSE],
     Tags |-> [Value |-> <<>>, Processed |-> FALSE]]

\* A check that looks at the value before the time and not at the tags.
IsValidValueFirst(dp) ==
    IF ~dp.Value.Processed THEN NewErr("value field is not Processed", 0)
    ELSE IF ~dp.Time.Processed THEN NewErr("time field is not Processed", 0)
    ELSE NilErr

\* DataPoint.IsValid.
IsValid(dp) ==
    IF ~dp.Time.Processed THEN NewErr("time field is not Processed", 0)
    ELSE IF ~dp.Value.Processed THEN NewErr("value field is not Processed", 0)
    ELSE IF ~dp.Tags.Processed THEN NewErr("tags field is not Processed", 0)
    ELSE NilErr

Fail(e) == [dp |-> ZeroDataPoint, err |-> e]

\* decodeDatapointBody: json Decode calls the UnmarshalJSON of every field
\* the body has (here in the order time, value, tags) and gives up at the
\* first error; a field the body lacks is left unprocessed.
decodeDatapointBody(body) ==
    IF ~body.syntaxOK THEN Fail(NewErr("failed to decode response body", 0))
    ELSE
    LET tm == IF body.time.kind = "absent"
              THEN [err |-> NilErr, field |-> ZeroDataPoint.Time]
              ELSE DataPointTimeUnmarshalJSON(body.time.chars)
        vl == IF body.value.kind = "absent"
              THEN [err |-> NilErr, field |-> ZeroDataPoint.Value]
              ELSE DataPointValueUnmarshalJSON(body.value)
        tg == IF body.tags.kind = "absent"
              THEN [err |-> NilErr, field |-> ZeroDataPoint.Tags]
              ELSE ValueUnmarshalJSON(body.tags)
        dp == [Time |-> tm.field, Value |-> vl.field, Tags |-> tg.field]
    IN  IF IsErr(tm.err) THEN Fail(Wrap("failed to decode response body", tm.err))
        ELSE IF IsErr(vl.err) THEN Fail(Wrap("failed to decode response body", vl.err))
        ELSE IF IsErr(tg.err) THEN Fail(Wrap("failed to decode response body", tg.err))
        ELSE IF IsErr(IsValid(dp)) THEN Fail(Wrap("invalid datapoint received", IsValid(dp)))
        ELSE [dp |-> dp, err |-> NilErr]

\* http.StatusOK
StatusOK == 200

\* A result together with the calls made on the way to it.
Called(c, r) == [dp |-> r.dp, err |-> r.err, calls |-> c]

\* A client that takes every status from 200 to 299 for a success.
ClientDataPointAny2xx(in) ==
    IF in.doErr THEN Called(<<"Do">>, Fail(NewErr("failed to perform request", 0)))
    ELSE IF in.status < 200 \/ in.status > 299
    THEN Called(<<"Do", "Close">>, Fail(NewErr("unexpected status code", in.status)))
    ELSE LET r == decodeDatapointBody(in.body)
         IN  Called(<<"Do", "decodeDatapointBody", "Close">>,
                    IF IsErr(r.err) THEN Fail(Wrap("failed to decode datapoint body", r.err))
                    ELSE IF IsErr(IsValid(r.dp))
                         THEN Fail(Wrap("invalid datapoint received", IsValid(r.dp)))
                         ELSE r)

\* DataServerClient.DataPoint: one GET (client.Do); a transport error, a
\* status other than 200 and a body that does not decode are errors.  The
\* deferred resp.Body.Close() runs on every return after a response.
ClientDataPoint(in) ==
    IF in.doErr THEN Called(<<"Do">>, Fail(NewErr("failed to perform request", 0)))
    ELSE IF in.status # StatusOK
    THEN Called(<<"Do", "Close">>, Fail(NewErr("unexpected status code", in.status)))
    ELSE LET r == decodeDatapointBody(in.body)
         IN  Called(<<"Do", "decodeDatapointBody", "Close">>,
                    IF IsErr(r.err) THEN Fail(Wrap("failed to decode datapoint body", r.err))
                    ELSE IF IsErr(IsValid(r.dp))
                         THEN Fail(Wrap("invalid datapoint received", IsValid(r.dp)))
                         ELSE r)

\* DataPointUseCase.Read.
Read(in) ==
    LET r == ClientDataPoint(in)
    IN  IF IsErr(r.err)
        THEN Called(r.calls, Fail(Wrap("failed to get datapoint from data server", r.err)))
        ELSE r

----------------------------------------------------------------------------
(***************************************************************************)
(* DataPointUseCase.Collect, lines 47-75: where a record goes.             *)
(***************************************************************************)

\* time.Hour, in seconds
Hour == 3600

\* time.Time.Add and time.Time.Before
Add(t, d) == t + d
Before(t, u) == t < u

\* A check that also drops the record that is exactly one hour old.
StaleInclusive(dp, now) == ~Before(Add(now, (0 - 1) * Hour), dp.Time.Value)

\* Line 47: dp.Time.Value.Before(time.Now().Add(-1 * time.Hour))
Stale(dp, now) == Before(dp.Time.Value, Add(now, (0 - 1) * Hour))

\* A comparison that ignores the case of the letters (strings.EqualFold).
BlockedTagFold(value) ==
    value \in {"system", "System", "SYSTEM", "suspect", "Suspect", "SUSPECT"}

\* Line 59: value == "system" || value == "suspect"
BlockedTag(value) == value = "system" \/ value = "suspect"

\* Lines 57-68: the range loop returns at the first tag that is blocked;
\* the position of that tag from position i on, 0 when there is none.
RECURSIVE FirstBlocked(_, _)
FirstBlocked(tags, i) ==
    IF i > Len(tags) THEN 0
    ELSE IF BlockedTag(tags[i]) THEN i
    ELSE FirstBlocked(tags, i + 1)

Accepted == "datapoint"
Discarded == "datapoint_discarded"

\* A Collect that looks at the tags before it looks at the age.
AdmitTagsFirst(dp, now) ==
    IF FirstBlocked(dp.Tags.Value, 1) # 0
    THEN [table |-> Discarded,
          log |-> <<"tag", dp.Tags.Value[FirstBlocked(dp.Tags.Value, 1)]>>]
    ELSE IF Stale(dp, now)
    THEN [table |-> Discarded, log |-> <<"reason", "timestamp too old">>]
    ELSE [table |-> Accepted, log |-> <<>>]

\* Lines 47-75: the table the record is written to (repository.Write:
\* "datapoint", repository.WriteDiscard: "datapoint_discarded") and the
\* attributes of the "Dropping datapoint" log line.
Admit(dp, now) ==
    IF Stale(dp, now)
    THEN [table |-> Discarded, log |-> <<"reason", "timestamp too old">>]
    ELSE IF FirstBlocked(dp.Tags.Value, 1) # 0
    THEN [table |-> Discarded,
          log |-> <<"tag", dp.Tags.Value[FirstBlocked(dp.Tags.Value, 1)]>>]
    ELSE [table |-> Accepted, log |-> <<>>]

\* dto.DataPoint as handed to repository.write
Point(dp, receivedAt) ==
    [Time |-> dp.Time.Value, Value |-> dp.Value.Value, Tags |-> dp.Tags.Value,
     ReceivedAt |-> receivedAt]

----------------------------------------------------------------------------
(***************************************************************************)
(* The inputs a Collect run is tried on.                                   *)
(***************************************************************************)
Absent == [kind |-> "absent"]
RawText(s) == [kind |-> "raw", chars |-> s]
ByteArray(b) == [kind |-> "array", bytes |-> b]
StringArray(s) == [kind |-> "array", items |-> s]
Quoted(s) == <<"\"">> \o s \o <<"\"">>

\* The text 1700000000 and the instant it names.
TimeDigits == <<"1", "7", "0", "0", "0", "0", "0", "0", "0", "0">>
T0 == ParseInt(TimeDigits).val

\* float32ToBytes of the client tests: math.Float32bits(f), then the bytes
\* bits & 0xFF, (bits >> 8) & 0xFF, (bits >> 16) & 0xFF, (bits >> 24) & 0xFF.
float32ToBytes(bits) ==
    <<bits[2] % 256, (bits[2] \div 256) % 256, bits[1] % 256, (bits[1] \div 256) % 256>>

\* float32ToBytes(3.14) of the client tests: 0x4048F5C3, low byte first.
PiBytes == <<195, 245, 72, 64>>

\* The bytes of 0.0, 1.0 (0x3F800000), -42.5 (0xC22A0000), of the negative
\* infinity (0xFF800000) and of a NaN (0xFFFFFFFF).
FloatBytes ==
    {<<0, 0, 0, 0>>, <<0, 0, 128, 63>>, <<0, 0, 42, 194>>, <<0, 0, 128, 255>>,
     <<255, 255, 255, 255>>}

TimeRaws ==
    {RawText(TimeDigits), RawText(Quoted(TimeDigits)), RawText(<<"-", "5">>),
     RawText(<<"0">>), RawText(<<"1", "e", "3">>),
     RawText(<<"1", ".", "5">>), RawText(<<"n", "u", "l", "l">>),
     RawText(Quoted(<<"a">>)), Absent}

ByteSample == {7, 200}
ValueRaws ==
    {ByteArray(b) : b \in UNION {[1..n -> ByteSample] : n \in 0..MaxValueLen}}
      \cup {ByteArray(b) : b \in FloatBytes}
      \cup {ByteArray(PiBytes), [kind |-> "null"],
            [kind |-> "text", chars |-> <<"n", "o">>], Absent}

TagSample == {"ok", "system", "suspect", "System", "SUSPECT"}
TagSeqs == UNION {[1..n -> TagSample] : n \in 0..MaxTags}

StatusSample == {200, 201, 204, 299, 300, 404, 500}
NowSample == {T0 - 5, T0 + 10, T0 + Hour - 1, T0 + Hour, T0 + Hour + 1, T0 + 2 * Hour}

GoodBody ==
    [syntaxOK |-> TRUE, time |-> RawText(TimeDigits), value |-> ByteArray(PiBytes),
     tags |-> StringArray(<<"ok">>)]

\* Bodies of every shape, met by a client whose request goes through.
DecodeInputs ==
    [doErr : {FALSE}, status : {StatusOK},
     body : [syntaxOK : BOOLEAN, time : TimeRaws, value : ValueRaws,
             tags : {StringArray(<<"ok">>), Absent}],
     now : {T0 + 10}, writeFails : {FALSE}]

\* Transport outcomes.
TransportInputs ==
    [doErr : BOOLEAN, status : StatusSample, body : {GoodBody},
     now : {T0 + 10}, writeFails : {FALSE}]

\* Records that decode, of every age and with every tag sequence.
AdmitInputs ==
    [doErr : {FALSE}, status : {StatusOK},
     body : [syntaxOK : {TRUE}, time : {RawText(TimeDigits), RawText(Quoted(TimeDigits))},
             value : {ByteArray(PiBytes)},
             tags : {StringArray(g) : g \in TagSeqs}],
     now : NowSample, writeFails : BOOLEAN]

Inputs == DecodeInputs \cup TransportInputs \cup AdmitInputs

\* No Collect run is modelled.
CollectIdle ==
    /\ cIn = [doErr |-> TRUE, status |-> 0, body |-> GoodBody, now |-> T0,
              writeFails |-> FALSE]
    /\ cpc = "off"
    /\ cDp = ZeroDataPoint
    /\ calls = <<>>
    /\ cErr = NilErr
    /\ cLog = <<>>
    /\ writes = <<>>

----------------------------------------------------------------------------
(***************************************************************************)
(* The query path: ChiServer.DataPointQuery (transport/http/server.go),    *)
(* repository.DataPoint.Query (with the storage that answers it) and       *)
(* iter.DataPointIter.                                                     *)
(*                                                                         *)
(* A text is the sequence of its characters, an instant the number of      *)
(* seconds since the epoch.  The query text is kept as the sequence of the *)
(* pieces the code concatenates.                                           *)
(***************************************************************************)

\* Most rows the table holds.
MaxRows == 3

\* A pointer: nil, or one to the value v.
NilPtr == [nil |-> TRUE]
Ptr(v) == [nil |-> FALSE, v |-> v]

\* The number of days from 1970-01-01 to the day y-m-d (Gregorian calendar).
DaysFromCivil(y, m, d) ==
    LET yy == IF m <= 2 THEN y - 1 ELSE y
        era == yy \div 400
        yoe == yy - era * 400
        mp == IF m > 2 THEN m - 3 ELSE m + 9
        doy == (153 * mp + 2) \div 5 + d - 1
        doe == yoe * 365 + yoe \div 4 - yoe \div 100 + doy
    IN  era * 146097 + doe - 719468

\* The day <<y, m, d>> that lies z days after 1970-01-01.
CivilFromDays(z) ==
    LET zz == z + 719468
        era == zz \div 146097
        doe == zz - era * 146097
        yoe == (doe - doe \div 1460 + doe \div 36524 - doe \div 146096) \div 365
        doy == doe - (365 * yoe + yoe \div 4 - yoe \div 100)
        mp == (5 * doy + 2) \div 153
        d == doy - (153 * mp + 2) \div 5 + 1
        m == IF mp < 10 THEN mp + 3 ELSE mp - 9
    IN  <<yoe + era * 400 + (IF m <= 2 THEN 1 ELSE 0), m, d>>

IsLeap(y) == (y % 4 = 0 /\ y % 100 # 0) \/ y % 400 = 0
DaysIn(m, y) ==
    IF m = 2 THEN (IF IsLeap(y) THEN 29 ELSE 28)
    ELSE IF m \in {4, 6, 9, 11} THEN 30 ELSE 31

Num2(s, i) == DigitVal(s[i]) * 10 + DigitVal(s[i + 1])
Num4(s, i) == Num2(s, i) * 100 + Num2(s, i + 2)
DigitsAt(s, P) == \A i \in P : s[i] \in Digits

\* time.Parse(time.RFC3339, s), the layout being 2006-01-02T15:04:05Z07:00:
\* date and time of day, then Z or a numeric offset.  (The texts tried have
\* no fractional seconds.)
ParseRFC3339(s) ==
    LET shape ==
            /\ Len(s) \in {20, 25}
            /\ DigitsAt(s, {1, 2, 3, 4, 6, 7, 9, 10, 12, 13, 15, 16, 18, 19})
            /\ s[5] = "-" /\ s[8] = "-" /\ s[11] = "T" /\ s[14] = ":" /\ s[17] = ":"
            /\ IF Len(s) = 20 THEN s[20] = "Z"
               ELSE /\ s[20] \in {"+", "-"}
                    /\ DigitsAt(s, {21, 22, 24, 25})
                    /\ s[23] = ":"
        y == Num4(s, 1)
        m == Num2(s, 6)
        d == Num2(s, 9)
        hh == Num2(s, 12)
        mi == Num2(s, 15)
        ss == Num2(s, 18)
        zone == IF Len(s) = 20 THEN 0
                ELSE (IF s[20] = "-" THEN 0 - 1 ELSE 1) * (Num2(s, 21) * 3600 + Num2(s, 24) * 60)
        inRange ==
            /\ m \in 1..12 /\ d \in 1..DaysIn(m, y)
            /\ hh < 24 /\ mi < 60 /\ ss < 60
            /\ Len(s) = 25 => (Num2(s, 21) < 24 /\ Num2(s, 24) < 60)
    IN  IF shape /\ inRange
        THEN [ok |-> TRUE,
              t |-> DaysFromCivil(y, m, d) * 86400 + hh * 3600 + mi * 60 + ss - zone]
        ELSE [ok |-> FALSE, t |-> 0]

DigitChar(n) ==
    CASE n = 0 -> "0" [] n = 1 -> "1" [] n = 2 -> "2" [] n = 3 -> "3" [] n = 4 -> "4"
      [] n = 5 -> "5" [] n = 6 -> "6" [] n = 7 -> "7" [] n = 8 -> "8" [] n = 9 -> "9"
Pad2(n) == <<DigitChar(n \div 10), DigitChar(n % 10)>>
Pad4(n) == Pad2(n \div 100) \o Pad2(n % 100)

\* time.Time.Format(time.RFC3339) of an instant in UTC, which is what the
\* storage hands out.
FormatRFC3339(t) ==
    LET c == CivilFromDays(t \div 86400)
        sec == t % 86400
    IN  Pad4(c[1]) \o <<"-">> \o Pad2(c[2]) \o <<"-">> \o Pad2(c[3]) \o <<"T">>
          \o Pad2(sec \div 3600) \o <<":">> \o Pad2((sec % 3600) \div 60) \o <<":">>
          \o Pad2(sec % 60) \o <<"Z">>

\* A parser that takes a text it cannot parse for an absent bound.
parseTimeLenient(timeStr) ==
    IF timeStr.nil \/ ~ParseRFC3339(timeStr.v).ok THEN [err |-> NilErr, t |-> NilPtr]
    ELSE [err |-> NilErr, t |-> Ptr(ParseRFC3339(timeStr.v).t)]

\* ChiServer.parseTime.
parseTime(timeStr) ==
    IF timeStr.nil THEN [err |-> NilErr, t |-> NilPtr]
    ELSE LET p == ParseRFC3339(timeStr.v)
         IN  IF ~p.ok THEN [err |-> NewErr("failed to parse time", 0), t |-> NilPtr]
             ELSE [err |-> NilErr, t |-> Ptr(p.t)]

\* The pieces of the query text of repository.DataPoint.Query.
Select == "SELECT * FROM datapoint"
WhereStart == " WHERE time >= $start"
AndUntil == " AND time <= $until"
OrderBy == " ORDER BY time DESC"

\* repository.DataPoint.Query, lines 215-227: the query text and its
\* parameters.
BuildQuery(start, until) ==
    [query |-> <<Select>> \o (IF start.nil THEN <<>> ELSE <<WhereStart>>)
                 \o (IF until.nil THEN <<>> ELSE <<AndUntil>>)
                 \o <<OrderBy>>,
     parameters |-> [p \in (IF start.nil THEN {} ELSE {"start"})
                            \cup (IF until.nil THEN {} ELSE {"until"}) |->
                        IF p = "start" THEN start.v ELSE until.v]]

\* What the SQL parser of the storage makes of a piece of the text.
Clause(piece) ==
    CASE piece = Select -> [kw |-> "SELECT", op |-> "", param |-> ""]
      [] piece = WhereStart -> [kw |-> "WHERE", op |-> ">=", param |-> "start"]
      [] piece = AndUntil -> [kw |-> "AND", op |-> "<=", param |-> "until"]
      [] piece = OrderBy -> [kw |-> "ORDER", op |-> "", param |-> ""]

\* SQL: SELECT ... FROM table [WHERE condition {AND condition}] ORDER BY ...
WellFormed(query) ==
    /\ Len(query) >= 2
    /\ Clause(query[1]).kw = "SELECT"
    /\ Clause(query[Len(query)]).kw = "ORDER"
    /\ \A i \in 2..(Len(query) - 1) :
          Clause(query[i]).kw = (IF i = 2 THEN "WHERE" ELSE "AND")

\* The row the table holds at position k: its time, and a value that is
\* a float64 or (table[k] = "null") is none.
RowTime(k) == T0 + (k - 2) * Hour
Row(table, k) ==
    [time |-> RowTime(k), timeOK |-> TRUE,
     value |-> k, valueOK |-> table[k] = "float"]

\* The rows k..1 of S, the latest first.
RECURSIVE Desc(_, _, _)
Desc(table, k, S) ==
    IF k = 0 THEN <<>>
    ELSE (IF k \in S THEN <<Row(table, k)>> ELSE <<>>) \o Desc(table, k - 1, S)

\* influxdb3 Client.QueryWithParameters against the table: a storage that
\* cannot be reached (down) is an error, and so is a text that is no SQL;
\* otherwise the rows that meet every condition, ordered by time, the
\* latest first.
QueryWithParameters(query, parameters, table, down) ==
    IF down
    THEN [err |-> NewErr("connection refused", 0), rows |-> <<>>]
    ELSE IF ~WellFormed(query)
    THEN [err |-> NewErr("sql parser error", 0), rows |-> <<>>]
    ELSE [err |-> NilErr,
          rows |-> Desc(table, MaxRows,
                        {k \in DOMAIN table :
                           /\ table[k] # "none"
                           /\ \A i \in 2..(Len(query) - 1) :
                                 LET c == Clause(query[i])
                                 IN  IF c.op = ">="
                                     THEN RowTime(k) >= parameters[c.param]
                                     ELSE RowTime(k) <= parameters[c.param]})]

\* repository.DataPoint.Query, lines 229-234, and DataPointUseCase.Query.
Query(start, until, table, down) ==
    LET q == BuildQuery(start, until)
        r == QueryWithParameters(q.query, q.parameters, table, down)
    IN  [issued |-> q,
         err |-> IF IsErr(r.err)
                 THEN Wrap("failed to query datapoints", Wrap("failed to execute query", r.err))
                 ELSE NilErr,
         rows |-> r.rows]

\* float32(val) of a float64 that a float32 holds exactly.
Float32(val) == val

\* iter.DataPointIter.Value.
IterValue(row) ==
    IF ~row.timeOK
    THEN [err |-> NewErr("failed to parse time from iterator", 0), dp |-> [Time |-> ZeroTime, Value |-> 0]]
    ELSE IF ~row.valueOK
    THEN [err |-> NewErr("failed to parse value from iterator", 0), dp |-> [Time |-> ZeroTime, Value |-> 0]]
    ELSE [err |-> NilErr, dp |-> [Time |-> row.time, Value |-> Float32(row.value)]]

\* DataPointModel, lines 79-82.
DataPointModel(dp) == [time |-> FormatRFC3339(dp.Time), value |-> dp.Value]

\* Request texts: the instant T0 in UTC, T0 + 1 s with an offset, one hour
\* and one second before T0, and texts that are no RFC 3339 timestamps.
TextT0 ==
    <<"2", "0", "2", "3", "-", "1", "1", "-", "1", "4", "T",
      "2", "2", ":", "1", "3", ":", "2", "0", "Z">>
TextT0Plus1 ==
    <<"2", "0", "2", "3", "-", "1", "1", "-", "1", "4", "T",
      "2", "3", ":", "1", "3", ":", "2", "1", "+", "0", "1", ":", "0", "0">>
TextBeforeRows ==
    <<"2", "0", "2", "3", "-", "1", "1", "-", "1", "4", "T",
      "2", "1", ":", "1", "3", ":", "1", "9", "Z">>
TextNoT ==
    <<"2", "0", "2", "3", "-", "1", "1", "-", "1", "4", " ",
      "2", "2", ":", "1", "3", ":", "2", "0", "Z">>
TextFeb30 ==
    <<"2", "0", "2", "3", "-", "0", "2", "-", "3", "0", "T",
      "0", "0", ":", "0", "0", ":", "0", "0", "Z">>

StartSample == {NilPtr, Ptr(TextT0), Ptr(TextT0Plus1), Ptr(TextNoT), Ptr(TimeDigits)}
UntilSample == {NilPtr, Ptr(TextT0), Ptr(TextBeforeRows), Ptr(TextFeb30), Ptr(<<>>)}

\* Tables: at each position no row, a row with a float64 value, or a row
\* whose value is null.
Tables == [1..MaxRows -> {"none", "float", "null"}]

\* The writes a run can make: the brackets, the items and the commas.
MaxWrites == 2 * MaxRows + 1

\* failAt: the number of the write to the response that fails (0: none);
\* down: the storage cannot be reached.
QueryInputs ==
    [start : StartSample, until : UntilSample, table : Tables, failAt : 0..MaxWrites,
     down : BOOLEAN]

\* No DataPointQuery run is modelled.
QueryIdle ==
    /\ qIn = [start |-> NilPtr, until |-> NilPtr, table |-> [k \in 1..MaxRows |-> "none"],
              failAt |-> 0, down |-> FALSE]
    /\ qpc = "off"
    /\ qStart = NilPtr /\ qUntil = NilPtr
    /\ issued = <<>>
    /\ cursor = <<>>
    /\ qi = 0
    /\ qDp = [Time |-> ZeroTime, Value |-> 0]
    /\ qStatus = 0
    /\ qBody = <<>>
    /\ wcount = 0
    /\ advances = 0
    /\ qLog = <<>>

\* Config and its parts; the zero value Config{}.
InfluxDBClientConfig(h, tk, db, org) == [Host |-> h, Token |-> tk, Database |-> db, Org |-> org]
DataServerClientConfig(h) == [Host |-> h]
HTTPServerConfig(p) == [Port |-> p]
DataServerCollectorConfig(ms) == [PollIntervalMs |-> ms]
Config(i, d, h, c) ==
    [InfluxDBClient |-> i, DataServerClient |-> d, HTTPServer |-> h,
     DataServerCollector |-> c]
ZeroConfig ==
    Config(InfluxDBClientConfig("", "", "", ""), DataServerClientConfig(""),
           HTTPServerConfig(""), DataServerCollectorConfig(0))

DefaultInfluxDBClientConfig == InfluxDBClientConfig("http://influxdb3-core:8181", "", "dev", "")
DefaultDataServerConfig == DataServerClientConfig("http://localhost:28462")
DefaultHTTPServerConfig == HTTPServerConfig(":8080")
DefaultDataServerCollectorConfig == DataServerCollectorConfig(1000)
DefaultConfig ==
    Config(DefaultInfluxDBClientConfig, DefaultDataServerConfig, DefaultHTTPServerConfig,
           DefaultDataServerCollectorConfig)

\* The struct tags: the JSON key of each field, and the Go kind of each
\* leaf field.
SectionKey ==
    [InfluxDBClient |-> "influxdb_client", DataServerClient |-> "data_server_client",
     HTTPServer |-> "http_server", DataServerCollector |-> "data_server_collector"]
FieldKey ==
    [Host |-> "host", Token |-> "token", Database |-> "database", Org |-> "org",
     Port |-> "port", PollIntervalMs |-> "poll_interval_ms"]
Kind(field) == IF field = "PollIntervalMs" THEN "int" ELSE "string"

\* JSON values: a string or a number.
JString(s) == [t |-> "string", s |-> s, n |-> 0]
JNumber(n) == [t |-> "number", s |-> "", n |-> n]

\* encoding/json on one leaf field of the section object o: a key that is
\* absent leaves the field at its zero value; a value of the field's kind
\* is stored; a value of another kind leaves the field and is a type error.
Fits(field, v) == v.t = (IF Kind(field) = "int" THEN "number" ELSE "string")
Zero(field) == IF Kind(field) = "int" THEN 0 ELSE ""
DecodeField(o, field) ==
    IF FieldKey[field] \in DOMAIN o /\ Fits(field, o[FieldKey[field]])
    THEN (IF Kind(field) = "int" THEN o[FieldKey[field]].n ELSE o[FieldKey[field]].s)
    ELSE Zero(field)

\* The section object of the document, the empty object when the section
\* is absent.
Section(doc, sec) == IF SectionKey[sec] \in DOMAIN doc THEN doc[SectionKey[sec]] ELSE <<>>

\* The leaf fields of each section, and those the document gives a value
\* of the wrong kind.
FieldsOf ==
    [InfluxDBClient |-> {"Host", "Token", "Database", "Org"},
     DataServerClient |-> {"Host"}, HTTPServer |-> {"Port"},
     DataServerCollector |-> {"PollIntervalMs"}]
Leaves == UNION {{<<sec, f>> : f \in FieldsOf[sec]} : sec \in DOMAIN FieldsOf}
Mistyped(doc) ==
    {l \in Leaves :
        /\ FieldKey[l[2]] \in DOMAIN Section(doc, l[1])
        /\ ~Fits(l[2], Section(doc, l[1])[FieldKey[l[2]]])}

\* json.Unmarshal(b, &cfg) into Config{}: a text that is no JSON is a
\* syntax error and nothing is decoded; otherwise every field the document
\* holds is decoded, and a value of the wrong kind is a type error.
Unmarshal(b) ==
    IF b.kind = "invalid"
    THEN [cfg |-> ZeroConfig, err |-> NewErr("invalid character", 0)]
    ELSE [cfg |-> [sec \in DOMAIN FieldsOf |->
                      [f \in FieldsOf[sec] |-> DecodeField(Section(b.doc, sec), f)]],
          err |-> IF Mistyped(b.doc) # {}
                  THEN NewErr("json: cannot unmarshal", 0)
                  ELSE NilErr]

\* A merge in which the source overrides what the destination holds.
MergeFieldOverride(field, dst, src) ==
    IF src # Zero(field) THEN src ELSE dst

\* mergo.Merge without options on one leaf field: the destination takes
\* the source's value when it is empty itself and the source's is not.
MergeField(field, dst, src) ==
    IF dst = Zero(field) /\ src # Zero(field) THEN src ELSE dst

\* mergo.Merge(&cfg, DefaultConfig()): struct fields are merged field by
\* field.
Merge(dst, src) ==
    [sec \in DOMAIN FieldsOf |->
        [f \in FieldsOf[sec] |-> MergeField(f, dst[sec][f], src[sec][f])]]

\* Values a file gives: those of TestLoadConfigFromFile_ValidJSON, and a
\* poll interval.
CustomConfig ==
    Config(InfluxDBClientConfig("http://custom-influxdb:9999", "test-token",
                                "production", "myorg"),
           DataServerClientConfig("http://custom-server:9090"),
           HTTPServerConfig(":9000"), DataServerCollectorConfig(250))

\* What a file holds at a key: nothing, the empty value, a value of the
\* field's kind, or (for some keys) a value of the other kind.
AbsentJ == [t |-> "absent", s |-> "", n |-> 0]
JValues(sec, f) ==
    IF Kind(f) = "int"
    THEN {JNumber(0), JNumber(CustomConfig[sec][f]), JString("1000")}
    ELSE {JString(""), JString(CustomConfig[sec][f])}
         \cup (IF f \in {"Token", "Org"} THEN {} ELSE {JNumber(7)})
AllJ == UNION {JValues(l[1], l[2]) : l \in Leaves} \cup {AbsentJ}
NoObject == [k \in {} |-> AbsentJ]
Objects(sec) ==
    {[k \in {FieldKey[f] : f \in {g \in FieldsOf[sec] : c[g] # AbsentJ}} |->
         c[CHOOSE f \in FieldsOf[sec] : FieldKey[f] = k]] :
       c \in {d \in [FieldsOf[sec] -> AllJ] :
                \A f \in FieldsOf[sec] : d[f] \in JValues(sec, f) \cup {AbsentJ}}}

\* A section of a document: absent, or an object.
SectionOpts(sec) ==
    {[present |-> FALSE, o |-> NoObject]} \cup {[present |-> TRUE, o |-> x] : x \in Objects(sec)}
Documents ==
    {[k \in {SectionKey[sec] : sec \in {s \in DOMAIN FieldsOf : sel[s].present}} |->
         sel[CHOOSE sec \in DOMAIN FieldsOf : SectionKey[sec] = k].o] :
       sel \in [InfluxDBClient : SectionOpts("InfluxDBClient"),
                DataServerClient : SectionOpts("DataServerClient"),
                HTTPServer : SectionOpts("HTTPServer"),
                DataServerCollector : SectionOpts("DataServerCollector")]}

\* The file at the path: none, a text that is no JSON, or a document.
NoDocument == [k \in {} |-> NoObject]
Files ==
    {[kind |-> "missing", doc |-> NoDocument], [kind |-> "invalid", doc |-> NoDocument]}
    \cup {[kind |-> "json", doc |-> d] : d \in Documents}

\* No LoadConfigFromFile run is modelled.
ConfigIdle ==
    /\ fIn = [kind |-> "missing", doc |-> NoDocument]
    /\ fpc = "off"
    /\ fB = [kind |-> "missing", doc |-> NoDocument]
    /\ fCfg = ZeroConfig
    /\ fRet = [cfg |-> ZeroConfig, err |-> NilErr]

\* No run of main is modelled.
MainIdle == mpc = "off" /\ gpc = "off" /\ wg = 0

QueryTypeOK ==
    /\ qpc \in {"off", "start", "open", "next", "comma", "item", "end", "done"}
    /\ qi \in 0..MaxRows /\ Len(cursor) <= MaxRows
    /\ qStatus \in {0, 200, 400, 500}
    /\ wcount \in 0..MaxWrites /\ advances \in 0..(MaxRows + 1)
    /\ Len(issued) <= 1

Init == TriggerInit /\ CollectIdle /\ QueryIdle /\ ConfigIdle /\ MainIdle

----------------------------------------------------------------------------
\* The number of Stop() calls made so far.
stopCalls == Cardinality({t \in StopThreads : tpc[t] # "idle"})

\* The scheduler is idle: Start() has never been called, or a Stop() call
\* has returned and no Start() call was made since.
IdleScheduler == quiet \/ \A s \in StartThreads : spc[s] = "idle"

\* Some Stop() call has been made and has not returned.
StopUnderWay == \E t \in StopThreads : tpc[t] \notin {"idle", "done"}

\* Start(), line 63: the caller loads pt.startOnce.
\* History: stopSince[s] tells whether a Stop() call was under way at some
\* time between the call of Start() and the entry into start() ("overlap"),
\* or was made after start() was entered ("called").
CallStart(s) ==
    /\ ~panicked
    /\ UNCHANGED <<collectVars, queryVars, cmdVars, idleStop>>
    /\ spc[s] = "idle"
    /\ \A x \in StartThreads : x < s => spc[x] # "idle"
    /\ sOnce' = [sOnce EXCEPT ![s] = startOnce]
    /\ spc' = [spc EXCEPT ![s] = "do"]
    /\ quiet' = FALSE
    /\ stopSince' = [stopSince EXCEPT ![s] = IF StopUnderWay THEN "overlap" ELSE "no"]
    /\ UNCHANGED <<fields, heap, sCtx, inflight, genVars, stopVars, stopDuring, lastErr>>

\* Lines 67-68 of start(): load pt.triggerCtx and call triggerFn with it.
EnterStart(s) ==
    /\ sCtx' = [sCtx EXCEPT ![s] = triggerCtx]
    /\ inflight' = [inflight EXCEPT ![s] = @ + 1]
    /\ spc' = [spc EXCEPT ![s] = "init_task"]
    /\ stopSince' = [stopSince EXCEPT ![s] = IF StopUnderWay THEN "overlap" ELSE @]

\* A start() that creates the ticker first and waits for the first tick
\* before it calls triggerFn.
StartOnceDoTickerFirst(s) ==
    /\ ~panicked
    /\ UNCHANGED <<collectVars, queryVars, cmdVars, idleStop>>
    /\ spc[s] = "do"
    /\ IF startOnceSt[sOnce[s]] = "fresh"
       THEN /\ startOnceSt' = [startOnceSt EXCEPT ![sOnce[s]] = "running"]
            /\ spc' = [spc EXCEPT ![s] = "loop"]
            /\ ticker' = [ticker EXCEPT ![s] = "active"]
            /\ lpc' = [lpc EXCEPT ![s] = "select"]
            /\ stopSince' = [stopSince EXCEPT ![s] = IF StopUnderWay THEN "overlap" ELSE @]
       ELSE /\ spc' = [spc EXCEPT ![s] = "blocked"]
            /\ UNCHANGED <<startOnceSt, stopSince, ticker, lpc>>
    /\ sOnce' = [sOnce EXCEPT ![s] = NoId]
    /\ UNCHANGED <<fields, nextId, chanLen, chanClosed, stopOnceSt, ctxDone, panicked,
                   sCtx, inflight, tickPending, lCh, stopVars,
                   quiet, stopDuring, lastErr>>

\* A Start() that does not go through the Once: start() runs on every call.
StartNoOnce(s) ==
    /\ ~panicked
    /\ UNCHANGED <<collectVars, queryVars, cmdVars, idleStop>>
    /\ spc[s] = "do"
    /\ EnterStart(s)
    /\ sOnce' = [sOnce EXCEPT ![s] = NoId]
    /\ UNCHANGED <<fields, heap, genVars, stopVars,
                   quiet, stopDuring, lastErr>>

\* Start(), line 63: startOnce.Do(pt.start) on the Once that was loaded.
\* The first caller runs start() while holding the Once; start() never
\* returns, so every other caller of the same Once blocks in Do for good.
\* Acquiring the Once touches nothing another goroutine reads before line
\* 68 does, so the two are one step.
StartOnceDo(s) ==
    /\ ~panicked
    /\ UNCHANGED <<collectVars, queryVars, cmdVars, idleStop>>
    /\ spc[s] = "do"
    /\ IF startOnceSt[sOnce[s]] = "fresh"
       THEN /\ startOnceSt' = [startOnceSt EXCEPT ![sOnce[s]] = "running"]
            /\ EnterStart(s)
       ELSE /\ spc' = [spc EXCEPT ![s] = "blocked"]
            /\ UNCHANGED <<startOnceSt, stopSince, sCtx, inflight>>
    /\ sOnce' = [sOnce EXCEPT ![s] = NoId]
    /\ UNCHANGED <<fields, nextId, chanLen, chanClosed, stopOnceSt, ctxDone, panicked,
                   genVars, stopVars,
                   quiet, stopDuring, lastErr>>

\* start(), lines 68-85: the initial triggerFn call returns err (nil or
\* not: an error is only logged, lines 69-71, and both outcomes continue at
\* line 73); the ticker and doneCh are created, the stop-listener goroutine
\* is spawned and the loop entered.
InitialDone(s, err) ==
    /\ ~panicked
    /\ UNCHANGED <<collectVars, queryVars, cmdVars, idleStop>>
    /\ spc[s] = "init_task"
    /\ inflight' = [inflight EXCEPT ![s] = @ - 1]
    /\ ticker' = [ticker EXCEPT ![s] = "active"]
    /\ lpc' = [lpc EXCEPT ![s] = "select"]
    /\ spc' = [spc EXCEPT ![s] = "loop"]
    /\ sCtx' = [sCtx EXCEPT ![s] = NoId]
    /\ stopDuring' = [stopDuring EXCEPT ![s] = FALSE]
    /\ lastErr' = [lastErr EXCEPT ![s] = err]
    /\ UNCHANGED <<fields, heap, sOnce, tickPending, lCh, stopVars,
                   quiet, stopSince>>

\* The initial triggerFn call returns nil.
InitialReturn(s) == InitialDone(s, FALSE)

\* The initial triggerFn call returns an error (lines 69-71).
InitialError(s) == InitialDone(s, TRUE)

\* A ticker whose channel has room for a second tick.
TickQueued(s) ==
    /\ ~panicked
    /\ UNCHANGED <<collectVars, queryVars, cmdVars, idleStop>>
    /\ ticker[s] = "active"
    /\ tickPending[s] < TickerCap + 1
    /\ tickPending' = [tickPending EXCEPT ![s] = @ + 1]
    /\ UNCHANGED <<fields, heap, startVars, ticker, lpc, lCh, stopVars, history>>

\* time.Ticker: a tick is delivered into the one-slot channel ticker.C; a
\* tick that finds the slot taken is dropped.
Tick(s) ==
    /\ ~panicked
    /\ UNCHANGED <<collectVars, queryVars, cmdVars, idleStop>>
    /\ ticker[s] = "active"
    /\ tickPending[s] < TickerCap
    /\ tickPending' = [tickPending EXCEPT ![s] = @ + 1]
    /\ UNCHANGED <<fields, heap, startVars, ticker, lpc, lCh, stopVars, history>>

\* doneCh (line 74) is only ever received from (lines 83 and 96): nothing
\* sends on it or closes it, so a receive from it is never ready.
DoneChReady(s) == FALSE

\* A loop that starts triggerFn on a tick without waiting for it.
LoopSelectAsync(s) ==
    /\ ~panicked
    /\ UNCHANGED <<collectVars, queryVars, cmdVars, idleStop>>
    /\ spc[s] \in InLoop
    /\ tickPending[s] > 0
    /\ tickPending' = [tickPending EXCEPT ![s] = @ - 1]
    /\ sCtx' = [sCtx EXCEPT ![s] = triggerCtx]
    /\ inflight' = [inflight EXCEPT ![s] = @ + 1]
    /\ spc' = [spc EXCEPT ![s] = "tick_task"]
    /\ lastErr' = [lastErr EXCEPT ![s] = FALSE]
    /\ UNCHANGED <<fields, heap, sOnce, ticker, lpc, lCh, stopVars,
                   quiet, stopSince, stopDuring>>

\* start(), lines 87-99: the select of the loop.  On a tick it loads
\* pt.triggerCtx and calls triggerFn (line 91).  The doneCh case only
\* breaks out of the select, the for loop then selects again.
LoopSelect(s) ==
    /\ ~panicked
    /\ UNCHANGED <<collectVars, queryVars, cmdVars, idleStop>>
    /\ spc[s] = "loop"
    /\ tickPending[s] > 0 \/ DoneChReady(s)
    /\ IF tickPending[s] > 0
       THEN /\ tickPending' = [tickPending EXCEPT ![s] = @ - 1]
            /\ sCtx' = [sCtx EXCEPT ![s] = triggerCtx]
            /\ inflight' = [inflight EXCEPT ![s] = @ + 1]
            /\ spc' = [spc EXCEPT ![s] = "tick_task"]
            /\ lastErr' = [lastErr EXCEPT ![s] = FALSE]
       ELSE UNCHANGED <<tickPending, sCtx, inflight, spc, lastErr>>
    /\ UNCHANGED <<fields, heap, sOnce, ticker, lpc, lCh, stopVars,
                   quiet, stopSince, stopDuring>>

\* start(), lines 91-95: the periodic triggerFn call returns err; with an
\* error (logged, then continue) or without, the loop selects again.
TickDone(s, err) ==
    /\ ~panicked
    /\ UNCHANGED <<collectVars, queryVars, cmdVars, idleStop>>
    /\ spc[s] = "tick_task"
    /\ inflight[s] > 0
    /\ inflight' = [inflight EXCEPT ![s] = @ - 1]
    /\ spc' = [spc EXCEPT ![s] = "loop"]
    /\ sCtx' = [sCtx EXCEPT ![s] = NoId]
    /\ stopDuring' = [stopDuring EXCEPT ![s] = FALSE]
    /\ lastErr' = [lastErr EXCEPT ![s] = err]
    /\ UNCHANGED <<fields, heap, sOnce, genVars, stopVars,
                   quiet, stopSince>>

\* The periodic triggerFn call returns nil.
TickReturn(s) == TickDone(s, FALSE)

\* A loop that ends when a periodic triggerFn call fails: it stops its
\* ticker and returns.
TickErrorFatal(s) ==
    /\ ~panicked
    /\ UNCHANGED <<collectVars, queryVars, cmdVars, idleStop>>
    /\ spc[s] = "tick_task"
    /\ inflight[s] > 0
    /\ inflight' = [inflight EXCEPT ![s] = @ - 1]
    /\ spc' = [spc EXCEPT ![s] = "returned"]
    /\ ticker' = [ticker EXCEPT ![s] = "stopped"]
    /\ sCtx' = [sCtx EXCEPT ![s] = NoId]
    /\ stopDuring' = [stopDuring EXCEPT ![s] = FALSE]
    /\ lastErr' = [lastErr EXCEPT ![s] = TRUE]
    /\ UNCHANGED <<fields, heap, sOnce, tickPending, lpc, lCh, stopVars,
                   quiet, stopSince>>

\* The periodic triggerFn call returns an error (lines 92-95).
TickError(s) == TickDone(s, TRUE)

----------------------------------------------------------------------------
\* Stop-listener goroutine, line 79: evaluate pt.stopCh for the select.
ListenerSelect(s) ==
    /\ ~panicked
    /\ UNCHANGED <<collectVars, queryVars, cmdVars, idleStop>>
    /\ lpc[s] = "select"
    /\ lCh' = [lCh EXCEPT ![s] = stopCh]
    /\ lpc' = [lpc EXCEPT ![s] = "recv"]
    /\ UNCHANGED <<fields, heap, startVars, ticker, tickPending, stopVars, history>>

\* Stop-listener goroutine, line 79: receive from the channel; a buffered
\* value is taken, a closed and empty channel yields the zero value.
ListenerRecv(s) ==
    /\ ~panicked
    /\ UNCHANGED <<collectVars, queryVars, cmdVars, idleStop>>
    /\ lpc[s] = "recv"
    /\ chanLen[lCh[s]] > 0 \/ chanClosed[lCh[s]]
    /\ chanLen' = [chanLen EXCEPT ![lCh[s]] = IF @ > 0 THEN @ - 1 ELSE 0]
    /\ lpc' = [lpc EXCEPT ![s] = "cancel"]
    /\ lCh' = [lCh EXCEPT ![s] = NoId]
    /\ UNCHANGED <<fields, nextId, chanClosed, startOnceSt, stopOnceSt, ctxDone, panicked,
                   startVars, ticker, tickPending, stopVars, history>>

\* Stop-listener goroutine, line 81: load pt.triggerCtxCancelFunc, call it.
ListenerCancel(s) ==
    /\ ~panicked
    /\ UNCHANGED <<collectVars, queryVars, cmdVars, idleStop>>
    /\ lpc[s] = "cancel"
    /\ ctxDone' = [ctxDone EXCEPT ![triggerCtxCancelFunc] = TRUE]
    /\ lpc' = [lpc EXCEPT ![s] = "tstop"]
    /\ UNCHANGED <<fields, nextId, chanLen, chanClosed, startOnceSt, stopOnceSt, panicked,
                   startVars, ticker, tickPending, lCh, stopVars, history>>

\* Stop-listener goroutine, lines 82-83: ticker.Stop(), then block on
\* doneCh.  Whether a tick already sitting in ticker.C survives Stop depends
\* on the Go release the program is built with.
ListenerTickerStop(s) ==
    /\ ~panicked
    /\ UNCHANGED <<collectVars, queryVars, cmdVars, idleStop>>
    /\ lpc[s] = "tstop"
    /\ ticker' = [ticker EXCEPT ![s] = "stopped"]
    /\ \E keep \in BOOLEAN :
          tickPending' = [tickPending EXCEPT ![s] = IF keep THEN @ ELSE 0]
    /\ lpc' = [lpc EXCEPT ![s] = "wait"]
    /\ UNCHANGED <<fields, heap, startVars, lCh, stopVars, history>>

----------------------------------------------------------------------------
\* Stop(), line 103: the caller loads pt.stopOnce.
\* History: idleStop[t] tells whether the scheduler was idle when the call
\* was made.
CallStop(t) ==
    /\ ~panicked
    /\ UNCHANGED <<collectVars, queryVars, cmdVars>>
    /\ tpc[t] = "idle"
    /\ idleStop' = [idleStop EXCEPT ![t] = IdleScheduler]
    /\ \A u \in StopThreads : u < t => tpc[u] # "idle"
    /\ tOnce' = [tOnce EXCEPT ![t] = stopOnce]
    /\ tpc' = [tpc EXCEPT ![t] = "do"]
    /\ stopSince' = [s \in StartThreads |->
          IF spc[s] \in InBody THEN "called"
          ELSE IF spc[s] = "do" THEN "overlap" ELSE stopSince[s]]
    /\ stopDuring' = [s \in StartThreads |-> stopDuring[s] \/ inflight[s] > 0]
    /\ UNCHANGED <<fields, heap, startVars, genVars, tNew, quiet, lastErr>>

\* The Stop() call of t returns.  History: the scheduler is quiet when no
\* other Stop() call and no Start() call that has not yet reached start()
\* is under way.
StopReturned(t) ==
    /\ tOnce' = [tOnce EXCEPT ![t] = NoId]
    /\ quiet' = /\ \A s \in StartThreads : spc[s] # "do"
                /\ \A u \in StopThreads \ {t} : tpc[u] \in {"idle", "done"}
    /\ UNCHANGED <<stopSince, stopDuring, lastErr>>

\* A Stop() that does not go through the Once: stop() runs on every call.
StopNoOnce(t) ==
    /\ ~panicked
    /\ UNCHANGED <<collectVars, queryVars, cmdVars, idleStop>>
    /\ tpc[t] = "do"
    /\ tpc' = [tpc EXCEPT ![t] = "stop"]
    /\ UNCHANGED <<fields, heap, startVars, genVars, tOnce, tNew, history>>

\* Stop(), line 103: stopOnce.Do(pt.stop) on the Once that was loaded: the
\* first caller runs stop(), a caller that finds the Once running waits for
\* it to finish and then returns, like a caller that finds it done.
StopOnceDo(t) ==
    /\ ~panicked
    /\ UNCHANGED <<collectVars, queryVars, cmdVars, idleStop>>
    /\ tpc[t] = "do"
    /\ stopOnceSt[tOnce[t]] # "running"
    /\ IF stopOnceSt[tOnce[t]] = "fresh"
       THEN /\ stopOnceSt' = [stopOnceSt EXCEPT ![tOnce[t]] = "running"]
            /\ tpc' = [tpc EXCEPT ![t] = "stop"]
            /\ UNCHANGED <<tOnce, history>>
       ELSE /\ tpc' = [tpc EXCEPT ![t] = "done"]
            /\ UNCHANGED stopOnceSt
            /\ StopReturned(t)
    /\ UNCHANGED <<fields, nextId, chanLen, chanClosed, startOnceSt, ctxDone, panicked,
                   startVars, genVars, tNew>>

\* stop(), lines 107-108: pt.stopCh <- struct{}{} and close(pt.stopCh).
\* The send blocks while the buffer is full; a send on a closed channel and
\* the close of a closed channel panic.  A receiver cannot tell the value
\* from the close that follows it, so the two statements are one step.
StopSignal(t) ==
    /\ ~panicked
    /\ UNCHANGED <<collectVars, queryVars, cmdVars, idleStop>>
    /\ tpc[t] = "stop"
    /\ chanClosed[stopCh] \/ chanLen[stopCh] = 0
    /\ IF chanClosed[stopCh]
       THEN panicked' = TRUE /\ UNCHANGED <<chanLen, chanClosed>>
       ELSE /\ chanLen' = [chanLen EXCEPT ![stopCh] = 1]
            /\ chanClosed' = [chanClosed EXCEPT ![stopCh] = TRUE]
            /\ UNCHANGED panicked
    /\ tpc' = [tpc EXCEPT ![t] = "reset"]
    /\ UNCHANGED <<fields, nextId, startOnceSt, stopOnceSt, ctxDone,
                   startVars, genVars, tOnce, tNew, history>>

\* A reset() that makes no new startOnce (line 57 left out).
ResetKeepStartOnce(t) ==
    /\ ~panicked
    /\ UNCHANGED <<collectVars, queryVars, cmdVars, idleStop>>
    /\ tpc[t] = "reset"
    /\ tNew' = [tNew EXCEPT ![t] = nextId]
    /\ nextId' = nextId + 1
    /\ stopCh' = nextId
    /\ stopOnce' = nextId
    /\ tpc' = [tpc EXCEPT ![t] = "r59"]
    /\ UNCHANGED <<startOnce, triggerCtx, triggerCtxCancelFunc,
                   chanLen, chanClosed, startOnceSt, stopOnceSt, ctxDone, panicked,
                   startVars, genVars, tOnce, history>>

\* A reset() that makes no new stop channel (line 56 left out).
ResetKeepStopCh(t) ==
    /\ ~panicked
    /\ UNCHANGED <<collectVars, queryVars, cmdVars, idleStop>>
    /\ tpc[t] = "reset"
    /\ tNew' = [tNew EXCEPT ![t] = nextId]
    /\ nextId' = nextId + 1
    /\ startOnce' = nextId
    /\ stopOnce' = nextId
    /\ tpc' = [tpc EXCEPT ![t] = "r59"]
    /\ UNCHANGED <<stopCh, triggerCtx, triggerCtxCancelFunc,
                   chanLen, chanClosed, startOnceSt, stopOnceSt, ctxDone, panicked,
                   startVars, genVars, tOnce, history>>

\* reset(), lines 56-58: new stop channel, new startOnce, new stopOnce.
\* No goroutine loads one of these three fields after another of them
\* without a blocking operation in between, so the three stores are one
\* step; the store of line 59 is a step of its own.
Reset(t) ==
    /\ ~panicked
    /\ UNCHANGED <<collectVars, queryVars, cmdVars, idleStop>>
    /\ tpc[t] = "reset"
    /\ tNew' = [tNew EXCEPT ![t] = nextId]
    /\ nextId' = nextId + 1
    /\ stopCh' = nextId
    /\ startOnce' = nextId
    /\ stopOnce' = nextId
    /\ tpc' = [tpc EXCEPT ![t] = "r59"]
    /\ UNCHANGED <<triggerCtx, triggerCtxCancelFunc,
                   chanLen, chanClosed, startOnceSt, stopOnceSt, ctxDone, panicked,
                   startVars, genVars, tOnce, history>>

\* reset(), line 59: pt.triggerCtx, pt.triggerCtxCancelFunc =
\* context.WithCancel(context.Background()); stop() returns, Do marks the
\* Once done and Stop() returns to its caller.
ResetCtx(t) ==
    /\ ~panicked
    /\ UNCHANGED <<collectVars, queryVars, cmdVars, idleStop>>
    /\ tpc[t] = "r59"
    /\ triggerCtx' = tNew[t]
    /\ triggerCtxCancelFunc' = tNew[t]
    /\ stopOnceSt' = [stopOnceSt EXCEPT ![tOnce[t]] = "done"]
    /\ tpc' = [tpc EXCEPT ![t] = "done"]
    /\ tNew' = [tNew EXCEPT ![t] = NoId]
    /\ StopReturned(t)
    /\ UNCHANGED <<stopCh, startOnce, stopOnce,
                   nextId, chanLen, chanClosed, startOnceSt, ctxDone, panicked,
                   startVars, genVars>>

----------------------------------------------------------------------------
StartStep(s) ==
    \/ StartOnceDo(s) \/ InitialReturn(s) \/ InitialError(s)
    \/ LoopSelect(s) \/ TickReturn(s) \/ TickError(s)

ListenerStep(s) ==
    \/ ListenerSelect(s) \/ ListenerRecv(s) \/ ListenerCancel(s) \/ ListenerTickerStop(s)

StopStep(t) ==
    \/ StopOnceDo(t) \/ StopSignal(t) \/ Reset(t) \/ ResetCtx(t)

Next ==
    \/ \E s \in StartThreads : CallStart(s) \/ StartStep(s) \/ Tick(s) \/ ListenerStep(s)
    \/ \E t \in StopThreads : CallStop(t) \/ StopStep(t)

Spec == Init /\ [][Next]_vars

\* Every Start() call is made before the first Stop() call: the callers of
\* Start() race for one startOnce, there is no restart.
NextOneGen ==
    \/ \E s \in StartThreads :
          \/ stopCalls = 0 /\ CallStart(s)
          \/ StartStep(s) \/ Tick(s) \/ ListenerStep(s)
    \/ \E t \in StopThreads : CallStop(t) \/ StopStep(t)

OneGenSpec == Init /\ [][NextOneGen]_vars

\* The interval is so long that no tick arrives and the task does not fail:
\* Start() and Stop() callers and the stop-listeners run, the loops stay in
\* their select.
NextNoTick ==
    \/ \E s \in StartThreads :
          CallStart(s) \/ StartOnceDo(s) \/ InitialReturn(s) \/ ListenerStep(s)
    \/ \E t \in StopThreads : CallStop(t) \/ StopStep(t)

NoTickSpec == Init /\ [][NextNoTick]_vars

\* The Stop() calls are made one after the other, as by one goroutine.
NextOneStop ==
    \/ \E s \in StartThreads : CallStart(s) \/ StartStep(s) \/ Tick(s) \/ ListenerStep(s)
    \/ \E t \in StopThreads :
          \/ ~StopUnderWay /\ CallStop(t)
          \/ StopStep(t)

OneStopSpec == Init /\ [][NextOneStop]_vars

\* Start -> Stop -> Start cycles made by one caller: Start() is called on a
\* new instance or after a Stop() has returned, Stop() is called when no
\* other Stop() is under way and only to start the instance again after it.
\* The task does not fail.
NextCycle ==
    \/ \E s \in StartThreads :
          \/ /\ ~StopUnderWay
             /\ quiet \/ \A x \in StartThreads : spc[x] = "idle"
             /\ CallStart(s)
          \/ StartOnceDo(s) \/ InitialReturn(s) \/ LoopSelect(s) \/ TickReturn(s)
          \/ Tick(s) \/ ListenerStep(s)
    \/ \E t \in StopThreads :
          \/ /\ ~StopUnderWay
             /\ \E s \in StartThreads : spc[s] = "idle"
             /\ CallStop(t)
          \/ StopStep(t)

CycleSpec == Init /\ [][NextCycle]_vars

\* The Go scheduler runs every runnable goroutine and a running ticker keeps
\* ticking; only the calls of Start() and Stop() are up to the environment.
FairSpec ==
    /\ OneStopSpec
    /\ \A s \in StartThreads :
          WF_vars(StartStep(s)) /\ WF_vars(ListenerStep(s)) /\ WF_vars(Tick(s))
    /\ \A t \in StopThreads : WF_vars(StopStep(t))

----------------------------------------------------------------------------
(***************************************************************************)
(* One run of DataPointUseCase.Collect.                                    *)
(***************************************************************************)
CollectInit ==
    /\ TriggerInit
    /\ QueryIdle
    /\ ConfigIdle
    /\ MainIdle
    /\ cIn \in Inputs
    /\ cpc = "start"
    /\ cDp = ZeroDataPoint
    /\ calls = <<>>
    /\ cErr = NilErr
    /\ cLog = <<>>
    /\ writes = <<>>

\* Collect, lines 42-45: Read; an error is wrapped and returned.
CollectRead ==
    /\ cpc = "start"
    /\ LET r == Read(cIn)
       IN  IF IsErr(r.err)
           THEN /\ cErr' = Wrap("failed to read datapoint", r.err)
                /\ cpc' = "done"
                /\ UNCHANGED cDp
           ELSE /\ cDp' = [Time |-> r.dp.Time, Value |-> r.dp.Value, Tags |-> r.dp.Tags]
                /\ cpc' = "fetched"
                /\ UNCHANGED cErr
    /\ calls' = calls \o Read(cIn).calls
    /\ UNCHANGED <<cIn, cLog, writes, triggerVars, queryVars, cmdVars>>

\* The write of repository.write: WritePoints is handed the point; its
\* error, if any, is joined to "failed to write datapoint".
WriteResult == IF cIn.writeFails THEN NewErr("failed to write datapoint", 0) ELSE NilErr

\* A Collect whose tag branch lacks its return: the dropped record is
\* written to the accepted table as well.
CollectAdmitFallThrough ==
    /\ cpc = "fetched"
    /\ \E late \in 0..1 :
          LET a == Admit(cDp, cIn.now)
              pt == Point(cDp, cIn.now + late)
          IN  /\ writes' = IF a.log # <<>> /\ a.log[1] = "tag"
                           THEN writes \o <<[table |-> a.table, point |-> pt],
                                            [table |-> Accepted, point |-> pt]>>
                           ELSE Append(writes, [table |-> a.table, point |-> pt])
              /\ cLog' = cLog \o a.log
    /\ cErr' = WriteResult
    /\ cpc' = "done"
    /\ UNCHANGED <<cIn, cDp, calls, triggerVars, queryVars, cmdVars>>

\* Collect, lines 47-75: the record is logged and written to the table
\* Admit names, with ReceivedAt a later reading of the clock, and the
\* result of the write is returned.
CollectAdmit ==
    /\ cpc = "fetched"
    /\ \E late \in 0..1 :
          LET a == Admit(cDp, cIn.now)
          IN  /\ writes' = Append(writes, [table |-> a.table,
                                          point |-> Point(cDp, cIn.now + late)])
              /\ cLog' = cLog \o a.log
    /\ cErr' = WriteResult
    /\ cpc' = "done"
    /\ UNCHANGED <<cIn, cDp, calls, triggerVars, queryVars, cmdVars>>

CollectNext == CollectRead \/ CollectAdmit

CollectSpec == CollectInit /\ [][CollectNext]_vars

----------------------------------------------------------------------------
(***************************************************************************)
(* One run of ChiServer.DataPointQuery.                                    *)
(***************************************************************************)
QueryInit ==
    /\ TriggerInit
    /\ CollectIdle
    /\ ConfigIdle
    /\ MainIdle
    /\ qIn \in QueryInputs
    /\ qpc = "start"
    /\ qStart = NilPtr /\ qUntil = NilPtr
    /\ issued = <<>>
    /\ cursor = <<>>
    /\ qi = 0
    /\ qDp = [Time |-> ZeroTime, Value |-> 0]
    /\ qStatus = 0
    /\ qBody = <<>>
    /\ wcount = 0
    /\ advances = 0
    /\ qLog = <<>>

\* render.Status and render.JSON of an Error: the status and the envelope
\* {"message": ...}; the handler returns.
RespondError(code, e) ==
    /\ qStatus' = code
    /\ qBody' = <<[message |-> e.msg]>>
    /\ qpc' = "done"

\* A handler that reads a bound it cannot parse as no bound at all.
DataPointQueryBeginLenient ==
    /\ qpc = "start"
    /\ LET s == parseTimeLenient(qIn.start)
           u == parseTimeLenient(qIn.until)
           r == Query(s.t, u.t, qIn.table, qIn.down)
       IN  /\ qStart' = s.t /\ qUntil' = u.t
           /\ issued' = Append(issued, r.issued)
           /\ IF IsErr(r.err)
              THEN /\ RespondError(500, Wrap("failed to query datapoints", r.err))
                   /\ UNCHANGED cursor
              ELSE /\ cursor' = r.rows
                   /\ qpc' = "open"
                   /\ UNCHANGED <<qStatus, qBody>>
    /\ UNCHANGED <<qIn, qi, qDp, wcount, advances, qLog, triggerVars, collectVars, cmdVars>>

\* DataPointQuery, lines 23-51: the bounds are parsed, start first; a bound
\* that does not parse is answered 400.  The query is issued; its failure
\* is answered 500.  Otherwise the content type is set.
DataPointQueryBegin ==
    /\ qpc = "start"
    /\ LET s == parseTime(qIn.start)
           u == parseTime(qIn.until)
           r == Query(s.t, u.t, qIn.table, qIn.down)
       IN  IF IsErr(s.err)
           THEN /\ RespondError(400, Wrap("failed to parse start time", s.err))
                /\ UNCHANGED <<qStart, qUntil, issued, cursor>>
           ELSE IF IsErr(u.err)
           THEN /\ RespondError(400, Wrap("failed to parse until time", u.err))
                /\ qStart' = s.t
                /\ UNCHANGED <<qUntil, issued, cursor>>
           ELSE /\ qStart' = s.t /\ qUntil' = u.t
                /\ issued' = Append(issued, r.issued)
                /\ IF IsErr(r.err)
                   THEN /\ RespondError(500, Wrap("failed to query datapoints", r.err))
                        /\ UNCHANGED cursor
                   ELSE /\ cursor' = r.rows
                        /\ qpc' = "open"
                        /\ UNCHANGED <<qStatus, qBody>>
    /\ UNCHANGED <<qIn, qi, qDp, wcount, advances, qLog, triggerVars, collectVars, cmdVars>>

\* One byte of the response body.
Byte(c) == [tok |-> c]

\* A write of the token tok to the response: when it succeeds the run goes
\* on at next; when it fails (the write numbered qIn.failAt), the error is
\* logged as what and the handler returns.  left is what a failed write has
\* written all the same: nothing, or a part of the token.
Write(tok, next, what, left) ==
    /\ wcount' = wcount + 1
    /\ IF qIn.failAt = wcount + 1
       THEN /\ qBody' = qBody \o left
            /\ qLog' = Append(qLog, what)
            /\ qpc' = "done"
       ELSE /\ qBody' = Append(qBody, tok)
            /\ qpc' = next
            /\ UNCHANGED qLog

\* A write whose failure is logged and otherwise ignored.
WriteIgnoringFailure(tok, next, what, left) ==
    /\ wcount' = wcount + 1
    /\ qpc' = next
    /\ IF qIn.failAt = wcount + 1
       THEN /\ qBody' = qBody \o left
            /\ qLog' = Append(qLog, what)
       ELSE /\ qBody' = Append(qBody, tok)
            /\ UNCHANGED qLog

\* Lines 55-59: the opening bracket; the first write sends the status 200.
WriteStart ==
    /\ qpc = "open"
    /\ qStatus' = 200
    /\ Write(Byte("["), "next", "Error writing response start", <<>>)
    /\ UNCHANGED <<qIn, qStart, qUntil, issued, cursor, qi, qDp, advances,
                   triggerVars, collectVars, cmdVars>>

\* A loop that counts the row it skips among the items written.
IterStepCounting ==
    /\ qpc = "next"
    /\ advances' = advances + 1
    /\ IF cursor = <<>>
       THEN /\ qpc' = "end"
            /\ UNCHANGED <<cursor, qDp, qLog, qi>>
       ELSE LET v == IterValue(Head(cursor))
            IN  /\ cursor' = Tail(cursor)
                /\ IF IsErr(v.err)
                   THEN /\ qLog' = Append(qLog, "Error retrieving item")
                        /\ qi' = qi + 1
                        /\ UNCHANGED <<qpc, qDp>>
                   ELSE /\ qDp' = v.dp
                        /\ qpc' = IF qi > 0 THEN "comma" ELSE "item"
                        /\ UNCHANGED <<qLog, qi>>
    /\ UNCHANGED <<qIn, qStart, qUntil, issued, qStatus, qBody, wcount,
                   triggerVars, collectVars, cmdVars>>

\* A loop that answers a row it cannot read as a failed request.
IterStepFailing ==
    /\ qpc = "next"
    /\ advances' = advances + 1
    /\ IF cursor = <<>>
       THEN /\ qpc' = "end"
            /\ UNCHANGED <<cursor, qDp, qLog, qStatus, qBody>>
       ELSE LET v == IterValue(Head(cursor))
            IN  /\ cursor' = Tail(cursor)
                /\ IF IsErr(v.err)
                   THEN /\ qLog' = Append(qLog, "Error retrieving item")
                        /\ RespondError(500, v.err)
                        /\ UNCHANGED qDp
                   ELSE /\ qDp' = v.dp
                        /\ qpc' = IF qi > 0 THEN "comma" ELSE "item"
                        /\ UNCHANGED <<qLog, qStatus, qBody>>
    /\ UNCHANGED <<qIn, qStart, qUntil, issued, qi, wcount,
                   triggerVars, collectVars, cmdVars>>

\* Lines 62-70: resultIter.Next(); when it is false the loop is left.
\* Otherwise resultIter.Value(): an error is logged and the loop continues
\* with the next row; a value goes on to be written, after a comma when an
\* item has been written before.
IterStep ==
    /\ qpc = "next"
    /\ advances' = advances + 1
    /\ IF cursor = <<>>
       THEN /\ qpc' = "end"
            /\ UNCHANGED <<cursor, qDp, qLog>>
       ELSE LET v == IterValue(Head(cursor))
            IN  /\ cursor' = Tail(cursor)
                /\ IF IsErr(v.err)
                   THEN /\ qLog' = Append(qLog, "Error retrieving item")
                        /\ UNCHANGED <<qpc, qDp>>
                   ELSE /\ qDp' = v.dp
                        /\ qpc' = IF qi > 0 THEN "comma" ELSE "item"
                        /\ UNCHANGED qLog
    /\ UNCHANGED <<qIn, qStart, qUntil, issued, qi, qStatus, qBody, wcount,
                   triggerVars, collectVars, cmdVars>>

\* Lines 71-75: the comma before an item that is not the first.
WriteComma ==
    /\ qpc = "comma"
    /\ Write(Byte(","), "item", "Error writing response comma", <<>>)
    /\ UNCHANGED <<qIn, qStart, qUntil, issued, cursor, qi, qDp, qStatus, advances,
                   triggerVars, collectVars, cmdVars>>

\* An item writer that leaves the counter i as it is.
WriteItemNoCount ==
    /\ qpc = "item"
    /\ \E left \in {<<>>, <<[part |-> DataPointModel(qDp)]>>} :
          Write(DataPointModel(qDp), "next", "Error encoding response item", left)
    /\ UNCHANGED <<qIn, qStart, qUntil, issued, cursor, qi, qDp, qStatus, advances,
                   triggerVars, collectVars, cmdVars>>

\* An item writer that goes on with the next row when its write fails.
WriteItemIgnoringFailure ==
    /\ qpc = "item"
    /\ \E left \in {<<>>, <<[part |-> DataPointModel(qDp)]>>} :
          WriteIgnoringFailure(DataPointModel(qDp), "next", "Error encoding response item", left)
    /\ qi' = IF qIn.failAt = wcount + 1 THEN qi ELSE qi + 1
    /\ UNCHANGED <<qIn, qStart, qUntil, issued, cursor, qDp, qStatus, advances,
                   triggerVars, collectVars, cmdVars>>

\* Lines 79-86: the item is encoded to the response, and i is incremented.
\* A write that fails may have written a part of the item.
WriteItem ==
    /\ qpc = "item"
    /\ \E left \in {<<>>, <<[part |-> DataPointModel(qDp)]>>} :
          Write(DataPointModel(qDp), "next", "Error encoding response item", left)
    /\ qi' = IF qIn.failAt = wcount + 1 THEN qi ELSE qi + 1
    /\ UNCHANGED <<qIn, qStart, qUntil, issued, cursor, qDp, qStatus, advances,
                   triggerVars, collectVars, cmdVars>>

\* Lines 88-92: the closing bracket.
WriteEnd ==
    /\ qpc = "end"
    /\ Write(Byte("]"), "done", "Error writing response end", <<>>)
    /\ UNCHANGED <<qIn, qStart, qUntil, issued, cursor, qi, qDp, qStatus, advances,
                   triggerVars, collectVars, cmdVars>>

QueryNext ==
    \/ DataPointQueryBegin
    \/ WriteStart
    \/ IterStep
    \/ WriteComma
    \/ WriteItem
    \/ WriteEnd

QuerySpec == QueryInit /\ [][QueryNext]_vars

----------------------------------------------------------------------------
(***************************************************************************)
(* One run of LoadConfigFromFile.                                          *)
(***************************************************************************)
ConfigInit ==
    /\ TriggerInit
    /\ CollectIdle
    /\ QueryIdle
    /\ MainIdle
    /\ fIn \in Files
    /\ fpc = "read"
    /\ fB = [kind |-> "missing", doc |-> NoDocument]
    /\ fCfg = ZeroConfig
    /\ fRet = [cfg |-> ZeroConfig, err |-> NilErr]

\* Lines 101-104: os.ReadFile; an error is returned with Config{}.
LoadConfigReadFile ==
    /\ fpc = "read"
    /\ IF fIn.kind = "missing"
       THEN /\ fRet' = [cfg |-> ZeroConfig, err |-> NewErr("no such file or directory", 0)]
            /\ fpc' = "done"
            /\ UNCHANGED fB
       ELSE /\ fB' = fIn
            /\ fpc' = "unmarshal"
            /\ UNCHANGED fRet
    /\ UNCHANGED <<fIn, fCfg, triggerVars, collectVars, queryVars, mainVars>>

\* Lines 106-109: json.Unmarshal into cfg; an error is returned with
\* Config{}.
LoadConfigUnmarshal ==
    /\ fpc = "unmarshal"
    /\ LET r == Unmarshal(fB)
       IN  /\ fCfg' = r.cfg
           /\ IF IsErr(r.err)
              THEN /\ fRet' = [cfg |-> ZeroConfig, err |-> r.err]
                   /\ fpc' = "done"
              ELSE /\ fpc' = "merge"
                   /\ UNCHANGED fRet
    /\ UNCHANGED <<fIn, fB, triggerVars, collectVars, queryVars, mainVars>>

\* Lines 111-114: the defaults are merged into cfg, which is returned.
LoadConfigMerge ==
    /\ fpc = "merge"
    /\ fCfg' = Merge(fCfg, DefaultConfig)
    /\ fRet' = [cfg |-> fCfg', err |-> NilErr]
    /\ fpc' = "done"
    /\ UNCHANGED <<fIn, fB, triggerVars, collectVars, queryVars, mainVars>>

ConfigNext ==
    \/ LoadConfigReadFile
    \/ LoadConfigUnmarshal
    \/ LoadConfigMerge

ConfigSpec == ConfigInit /\ [][ConfigNext]_vars

----------------------------------------------------------------------------
(***************************************************************************)
(* main: the collector goroutine and the shutdown path.                    *)
(***************************************************************************)
\* The goroutine that runs dataCollector.Start() and the Stop() call of main.
Collector == 1
Stopper == 1

\* main has spawned the collector goroutine (line 190) and the HTTP server
\* goroutine (line 214) and blocks in its select (line 224).
MainInit ==
    /\ TriggerInit
    /\ CollectIdle
    /\ QueryIdle
    /\ ConfigIdle
    /\ mpc = "select"
    /\ gpc = "spawned"
    /\ wg = 0

\* Line 191: dataCollectorWg.Add(1), made by the goroutine itself.
GoAdd ==
    /\ gpc = "spawned"
    /\ wg' = wg + 1
    /\ gpc' = "added"
    /\ UNCHANGED <<mpc, triggerVars, collectVars, queryVars, configVars>>

\* Line 193: dataCollector.Start().  The deferred dataCollectorWg.Done()
\* of line 192 runs when Start() returns, which it never does (see
\* StartOnceDo and LoopSelect).
GoStart == gpc = "added" /\ CallStart(Collector)

\* Lines 225-227: the HTTP server fails; main panics.
ServerError ==
    /\ mpc = "select"
    /\ mpc' = "panicked"
    /\ UNCHANGED <<gpc, wg, triggerVars, collectVars, queryVars, configVars>>

\* Lines 228-232: the shutdown signal is received.
ShutdownSignal ==
    /\ mpc = "select"
    /\ mpc' = "stop"
    /\ UNCHANGED <<gpc, wg, triggerVars, collectVars, queryVars, configVars>>

\* Line 233: dataCollector.Stop().
MainStop == mpc = "stop" /\ CallStop(Stopper)

\* Line 234: Stop() has returned; dataCollectorWg.Wait() returns when the
\* counter is zero.
MainWait ==
    /\ mpc = "stop"
    /\ tpc[Stopper] = "done"
    /\ wg = 0
    /\ mpc' = "shutdown"
    /\ UNCHANGED <<gpc, wg, triggerVars, collectVars, queryVars, configVars>>

\* Lines 237-245: server.Shutdown with its timeout of 30 s, server.Close
\* when it fails.
ServerShutdown ==
    /\ mpc = "shutdown"
    /\ mpc' = "close"
    /\ UNCHANGED <<gpc, wg, triggerVars, collectVars, queryVars, configVars>>

\* Lines 248-253: influxdb3Client.Close(); main returns.
ClientClose ==
    /\ mpc = "close"
    /\ mpc' = "done"
    /\ UNCHANGED <<gpc, wg, triggerVars, collectVars, queryVars, configVars>>

MainStep == MainStop \/ StopStep(Stopper) \/ MainWait \/ ServerShutdown \/ ClientClose

\* The process exists until main panics or returns; its other goroutines
\* and its ticker run as long as it does.
Alive == mpc \notin {"panicked", "done"}

GoStep == Alive /\ (GoAdd \/ GoStart \/ StartStep(Collector))

TickerStep == Alive /\ Tick(Collector)

StopListenerStep == Alive /\ ListenerStep(Collector)

MainNext ==
    \/ ServerError
    \/ ShutdownSignal
    \/ MainStep
    \/ GoStep
    \/ TickerStep
    \/ StopListenerStep

MainSpec == MainInit /\ [][MainNext]_vars

\* The Go scheduler runs every runnable goroutine and a running ticker
\* keeps ticking; only the signal and the server error are up to the
\* environment.
MainFairSpec ==
    /\ MainSpec
    /\ WF_vars(MainStep) /\ WF_vars(GoStep)
    /\ WF_vars(TickerStep) /\ WF_vars(StopListenerStep)

----------------------------------------------------------------------------
\* A Stop() call is past the point where it would have to wait: it has
\* returned, or it is reinitialising the synchronisation state.
StopPastWait ==
    \/ quiet
    \/ \E t \in StopThreads :
          tpc[t] = "r59" /\ \A u \in StopThreads \ {t} : tpc[u] \in {"idle", "done"}

\* C1: after Stop() has returned and until the next Start() is invoked, no
\* task invocation starts.
C1_NoInvocationAfterStop ==
    [][quiet => \A s \in StartThreads : inflight'[s] <= inflight[s]]_vars

\* C2: Stop() called on a running scheduler returns, and reinitialises the
\* synchronisation state, only after the loop has exited and the in-flight
\* task invocation has finished.
C2_StopWaitsForLoop ==
    StopPastWait =>
        \A s \in StartThreads :
            stopSince[s] = "called" => spc[s] = "returned" /\ inflight[s] = 0

\* C3: the context handed to a task invocation of a generation is not
\* cancelled before a Stop() is called on that generation.
C3_GenerationsIsolated ==
    \A s \in StartThreads :
        (inflight[s] > 0 /\ ctxDone[sCtx[s]]) => stopSince[s] # "no"

\* C4: when Stop() is called while a task invocation is in flight, the
\* context passed to that invocation is eventually cancelled.
C4_InFlightCtxCancelled ==
    \A c \in Ids :
        (\E s \in StartThreads : stopDuring[s] /\ sCtx[s] = c) ~> ctxDone[c]

\* C5: with no Stop() call, any number of concurrent Start() calls invokes
\* the task immediately exactly once and runs exactly one periodic loop.
C5_OneLoop ==
    stopCalls = 0 =>
        /\ Cardinality({s \in StartThreads : spc[s] \in InBody}) <= 1
        /\ Cardinality({s \in StartThreads : ticker[s] = "active"}) <= 1
        /\ (\E s \in StartThreads : spc[s] = "blocked") =>
              (\E s \in StartThreads : spc[s] \in InBody)

C5_Witness ==
    /\ stopCalls = 0
    /\ \E a \in StartThreads : \E b \in StartThreads \ {a} :
          spc[a] = "tick_task" /\ ticker[a] = "active" /\ spc[b] = "blocked"

\* C6: once Stop() has been called after Start() and no further Start() is
\* called, task invocations eventually cease for good.
C6_InvocationsCease ==
    <>[]quiet => <>[](\A s \in StartThreads : inflight[s] = 0)

\* C7: after Stop() is called on a running scheduler, the loop exits and
\* the Start() call that ran it eventually returns.
C7_StartReturns ==
    \A s \in StartThreads : (stopSince[s] = "called") ~> (spc[s] = "returned")

\* C8: a Stop() call made after a Stop() has returned, with no Start() in
\* between, sends no stop signal, cancels no context and does not rebuild
\* the synchronisation state.
C8_StopIdempotent ==
    [][(quiet /\ \E t \in StopThreads : tpc'[t] # tpc[t])
          => UNCHANGED <<fields, chanLen, chanClosed, ctxDone>>]_vars

\* C9: repeated or concurrent Stop() calls, in any interleaving with
\* Start(), never panic: no stop channel is closed twice and no send is
\* made on a closed stop channel.
C9_NoPanic == ~panicked

C9_Witness ==
    /\ ~panicked
    /\ \E t \in StopThreads : \E u \in StopThreads \ {t} :
          tpc[t] = "r59" /\ tpc[u] = "reset"
    /\ \E s \in StartThreads : spc[s] = "loop"

\* C10: within one generation at most one task invocation is in flight: an
\* invocation starts only after the previous one has returned.
C10_Sequential == \A s \in StartThreads : inflight[s] <= 1

C10_Witness ==
    \E s \in StartThreads : spc[s] = "tick_task" /\ tickPending[s] > 0 /\ inflight[s] = 1

\* C11 (as stated): the ticks that fire during a task invocation are skipped:
\* none is queued, so none is waiting to start an invocation at once when
\* the overrunning invocation returns.
C11_TicksSkipped ==
    [][\A s \in StartThreads :
          (spc[s] = "tick_task" /\ inflight'[s] < inflight[s]) => tickPending'[s] = 0]_vars

\* C11 (amended): of the ticks that fire during a task invocation at most
\* one is kept, the others are dropped: when an invocation starts, no tick
\* is left queued behind it.
C11_AtMostOneTickKept ==
    [][\A s \in StartThreads :
          /\ tickPending'[s] <= 1
          /\ (spc[s] = "loop" /\ inflight'[s] > inflight[s]) => tickPending'[s] = 0]_vars

C11_Witness ==
    \E s \in StartThreads :
        /\ spc[s] = "tick_task" /\ ticker[s] = "active"
        /\ tickPending[s] = 1 /\ ~ENABLED Tick(s)

\* C12: a task invocation that returns an error, the initial one or a
\* periodic one, does not end the generation: while Stop() has not been
\* called the loop goes on selecting, the ticker keeps running and a tick
\* invokes the task.
C12_ErrorKeepsLoop ==
    \A s \in StartThreads :
        (lastErr[s] /\ stopCalls = 0) =>
            /\ spc[s] = "loop"
            /\ ticker[s] = "active"
            /\ tickPending[s] > 0 => ENABLED LoopSelect(s)

C12_Witness ==
    \E s \in StartThreads :
        lastErr[s] /\ stopCalls = 0 /\ spc[s] = "loop" /\ tickPending[s] > 0

\* C13: Start() invokes the task at once and synchronously: the step that
\* enters start() starts the first invocation, no timer exists while it
\* runs, and a tick-driven invocation starts only from the loop, which is
\* entered when the first invocation has returned.
C13_ImmediateFirst ==
    [][\A s \in StartThreads :
          /\ (spc[s] = "do" /\ spc'[s] # "do") =>
                \/ spc'[s] = "blocked"
                \/ spc'[s] = "init_task" /\ inflight'[s] = 1
          /\ spc'[s] = "init_task" => ticker'[s] = "none" /\ tickPending'[s] = 0
          /\ (spc'[s] = "tick_task" /\ spc[s] # "tick_task") =>
                spc[s] = "loop" /\ ticker[s] # "none"]_vars

C13_Witness ==
    \E s \in StartThreads :
        spc[s] = "init_task" /\ inflight[s] = 1 /\ ticker[s] = "none" /\ lpc[s] = "none"

\* C14: after every completed Start -> Stop cycle a further Start() takes
\* effect: it is not refused by the Once, it runs the task at once and
\* its ticker runs until a Stop() is called on it.
C14_Restartable ==
    \A s \in StartThreads :
        /\ spc[s] # "blocked"
        /\ (spc[s] \in InLoop /\ stopSince[s] = "no") => ticker[s] = "active"

C14_Witness ==
    \E s \in StartThreads : \E x \in StartThreads \ {s} :
        /\ stopSince[x] = "called"
        /\ stopSince[s] = "no" /\ spc[s] = "tick_task" /\ ticker[s] = "active"

\* The Collect run has returned and its Read had succeeded.
CollectedOK == cpc = "done" /\ ~IsErr(Read(cIn).err)

\* C15: a Collect run whose fetch succeeds performs exactly one storage
\* write, to the accepted or to the rejected table; a run whose fetch or
\* decoding fails performs none.
C15_OneWrite ==
    /\ cpc \in {"start", "fetched"} => writes = <<>>
    /\ cpc = "done" =>
          IF IsErr(Read(cIn).err)
          THEN writes = <<>> /\ IsErr(cErr)
          ELSE Len(writes) = 1 /\ writes[1].table \in {Accepted, Discarded}

C15_Witness ==
    /\ CollectedOK /\ Len(writes) = 1 /\ writes[1].table = Discarded
    /\ cLog # <<>> /\ cLog[1] = "tag"

\* C16: when the producer answers 200 with the body {"time":"1700000000",
\* "value":<the 4 little-endian bytes of 3.14>,"tags":["ok"]} and now is
\* within one hour of that time, the collection writes once, to the
\* accepted table, with tags ["ok"] and the value 3.14 (0x4048F5C3).
C16_EndToEnd ==
    ( /\ cpc = "done"
      /\ ~cIn.doErr /\ cIn.status = 200
      /\ cIn.body = [syntaxOK |-> TRUE, time |-> RawText(Quoted(TimeDigits)),
                     value |-> ByteArray(<<195, 245, 72, 64>>),
                     tags |-> StringArray(<<"ok">>)]
      /\ cIn.now - 3600 <= 1700000000 /\ 1700000000 <= cIn.now + 3600 )
    => /\ Len(writes) = 1
       /\ writes[1].table = Accepted
       /\ writes[1].point.Tags = <<"ok">>
       /\ writes[1].point.Value = <<16456, 62915>>

\* C17: a record is rejected as stale exactly when its timestamp is
\* strictly older than now minus one hour; a record timestamped now minus
\* one hour, or later, is not stale.
C17_StaleBoundary ==
    CollectedOK =>
        ( (cLog = <<"reason", "timestamp too old">>) <=> (cDp.Time.Value + 3600 < cIn.now) )

C17_Witness ==
    /\ CollectedOK
    /\ cDp.Time.Value + 3600 = cIn.now
    /\ cLog = <<>> /\ writes[1].table = Accepted

\* C18: a record older than now minus one hour is rejected with the reason
\* stale whatever its tags are, also when they contain "system" or
\* "suspect".
C18_StaleFirst ==
    (CollectedOK /\ cDp.Time.Value + 3600 < cIn.now) =>
        /\ writes[1].table = Discarded
        /\ cLog = <<"reason", "timestamp too old">>

C18_Witness ==
    /\ CollectedOK /\ cDp.Time.Value + 3600 < cIn.now
    /\ \E i \in 1..Len(cIn.body.tags.items) : cIn.body.tags.items[i] = "suspect"
    /\ cLog = <<"reason", "timestamp too old">>

\* C19: a record that is not stale is rejected exactly when one of its tags
\* is "system" or "suspect" (letter for letter), the first such tag being
\* the reason reported; with no such tag it is accepted.
C19_BlockedTag ==
    (CollectedOK /\ ~(cDp.Time.Value + 3600 < cIn.now)) =>
        LET tags == cIn.body.tags.items
            hits == {i \in 1..Len(tags) : tags[i] \in {"system", "suspect"}}
            first == CHOOSE i \in hits : \A j \in hits : i <= j
        IN  IF hits = {}
            THEN writes[1].table = Accepted /\ cLog = <<>>
            ELSE writes[1].table = Discarded /\ cLog = <<"tag", tags[first]>>

C19_Witness ==
    /\ CollectedOK /\ ~(cDp.Time.Value + 3600 < cIn.now)
    /\ cIn.body.tags.items = <<"System", "suspect">>
    /\ writes[1].table = Discarded /\ cLog = <<"tag", "suspect">>

\* C20: for a value that is a byte array of a length n other than 4,
\* decoding fails with the decode error about the length, and the length
\* that error reports is n.
C20_ReportedLength ==
    ( /\ cpc = "done"
      /\ ~cIn.doErr /\ cIn.status = 200 /\ cIn.body.syntaxOK
      /\ cIn.body.time.kind = "raw" /\ ParseInt(cIn.body.time.chars).ok
      /\ cIn.body.value.kind = "array" /\ Len(cIn.body.value.bytes) # 4 )
    => /\ IsErr(cErr)
       /\ cErr.msg[Len(cErr.msg)] = "invalid data length for DataPointValue, expected 4 bytes"
       /\ cErr.got = Len(cIn.body.value.bytes)

\* The Read of the run was handed a body whose time and tags decode.
DecodableAround ==
    /\ cpc # "start"
    /\ ~cIn.doErr /\ cIn.status = 200 /\ cIn.body.syntaxOK
    /\ cIn.body.time.kind = "raw" /\ ParseInt(cIn.body.time.chars).ok
    /\ cIn.body.tags.kind = "array"

\* C21: for every 4-byte sequence b0..b3 the decoded measurement has the
\* 32-bit pattern b0 + 2^8*b1 + 2^16*b2 + 2^24*b3 and is marked decoded, so
\* decoding the little-endian bytes of a float32 f yields f.
C21_RoundTrip ==
    (DecodableAround /\ cIn.body.value.kind = "array" /\ Len(cIn.body.value.bytes) = 4) =>
        LET b == cIn.body.value.bytes
        IN  /\ cDp.Value.Processed
            /\ cDp.Value.Value = <<b[3] + 256 * b[4], b[1] + 256 * b[2]>>
            /\ float32ToBytes(cDp.Value.Value) = b

C21_Witness ==
    /\ DecodableAround /\ cpc = "done"
    /\ cIn.body.value = ByteArray(<<0, 0, 42, 194>>)
    /\ cDp.Value = [Value |-> <<49706, 0>>, Processed |-> TRUE]
    /\ Len(writes) = 1 /\ writes[1].point.Value = <<49706, 0>>

\* The fetch of the run was answered 200 with a body of correct syntax in
\* which every field is either absent or one its decoder accepts.
FieldsDecodeOrAbsent ==
    /\ cpc # "start"
    /\ ~cIn.doErr /\ cIn.status = 200 /\ cIn.body.syntaxOK
    /\ \/ cIn.body.time.kind = "absent"
       \/ cIn.body.time.kind = "raw" /\ ParseInt(cIn.body.time.chars).ok
    /\ \/ cIn.body.value.kind = "absent"
       \/ cIn.body.value.kind = "array" /\ Len(cIn.body.value.bytes) = 4
    /\ cIn.body.tags.kind \in {"absent", "array"}

Layers(e) == {e.msg[i] : i \in 1..Len(e.msg)}

IsIntegerLiteral(s) ==
    LET d == IF Len(s) > 0 /\ s[1] = "-" THEN SubSeq(s, 2, Len(s)) ELSE s
    IN  /\ Len(d) > 0
        /\ \A i \in 1..Len(d) : d[i] \in Digits
        /\ Len(d) > 1 => d[1] # "0"

\* The integer literals of the model and the numbers they denote.
IntegerLiterals ==
    {<<TimeDigits, 1700000000>>, <<(<<"-", "5">>), 0 - 5>>, <<(<<"0">>), 0>>}

Answered == cpc # "start" /\ ~cIn.doErr

\* The fetch failed with the unexpected-status error, which carries the
\* status of the response.
UnexpectedStatus ==
    /\ cpc = "done" /\ IsErr(cErr)
    /\ cErr.msg[Len(cErr.msg)] = "unexpected status code"
    /\ cErr.got = cIn.status

\* The number of requests made and whether the decoder was handed the body.
Requests == Cardinality({i \in 1..Len(calls) : calls[i] = "Do"})
HandedToDecoder == \E i \in 1..Len(calls) : calls[i] = "decodeDatapointBody"

\* C25 (as stated): the fetch fails with the unexpected-status error exactly
\* when the status is outside 200..299; every 2xx response is handed to the
\* decoder, and one request is made per fetch.
C25_Non2xxFails ==
    Answered =>
        /\ UnexpectedStatus <=> (cIn.status < 200 \/ cIn.status > 299)
        /\ HandedToDecoder <=> (200 <= cIn.status /\ cIn.status <= 299)
        /\ Requests = 1

\* C25 (amended): the fetch fails with the unexpected-status error carrying
\* the status code exactly when the status is not 200; only a 200 response
\* is handed to the decoder, and one request is made per fetch.
C25_Not200Fails ==
    /\ cpc = "start" => calls = <<>>
    /\ cpc # "start" => Requests = 1
    /\ Answered =>
        /\ UnexpectedStatus <=> cIn.status # 200
        /\ HandedToDecoder <=> cIn.status = 200

C25_Witness ==
    /\ Answered /\ cIn.status = 204 /\ UnexpectedStatus /\ cErr.got = 204
    /\ calls = <<"Do", "Close">> /\ writes = <<>>

\* The rows of the table that lie within the bounds the run has parsed.
InRange ==
    {k \in DOMAIN qIn.table :
        /\ qIn.table[k] # "none"
        /\ qStart.nil \/ T0 + (k - 2) * 3600 >= qStart.v
        /\ qUntil.nil \/ T0 + (k - 2) * 3600 <= qUntil.v}

\* Those of them whose value can be extracted, and the place of such a
\* row among them in the order of the cursor (the latest first).
Emitted == {k \in InRange : qIn.table[k] = "float"}
Rank(k) == Cardinality({x \in Emitted : x > k}) + 1

\* The body is the array of the emitted rows: the opening bracket, the
\* items in the order of the cursor with one comma between two of them,
\* the closing bracket.
FullArray(b) ==
    LET n == Cardinality(Emitted)
    IN  /\ Len(b) = IF n = 0 THEN 2 ELSE 2 * n + 1
        /\ b[1] = [tok |-> "["] /\ b[Len(b)] = [tok |-> "]"]
        /\ \A k \in Emitted :
              /\ DOMAIN b[2 * Rank(k)] = {"time", "value"}
              /\ b[2 * Rank(k)].value = k
              /\ ParseRFC3339(b[2 * Rank(k)].time).ok
              /\ ParseRFC3339(b[2 * Rank(k)].time).t = T0 + (k - 2) * 3600
        /\ \A j \in 1..(n - 1) : b[2 * j + 1] = [tok |-> ","]

\* The run has streamed to its end.
Streamed == qpc = "done" /\ qStatus = 200

\* No write of the run has failed.
NoWriteFailed == qIn.failAt = 0 \/ wcount < qIn.failAt

\* C26: when every write succeeds the streamed body is '[', the serialized
\* emitted rows in cursor order with exactly one comma between consecutive
\* rows, and ']'; an empty cursor yields exactly [], and no leading,
\* trailing or doubled comma occurs.
C26_ArrayShape ==
    (Streamed /\ NoWriteFailed) =>
        /\ FullArray(qBody)
        /\ InRange = {} => qBody = <<[tok |-> "["], [tok |-> "]"]>>

C26_Witness ==
    /\ Streamed /\ qIn.failAt = 0
    /\ qIn.table = [k \in 1..MaxRows |-> "float"]
    /\ qIn.start = NilPtr /\ qIn.until = NilPtr
    /\ Len(qBody) = 2 * MaxRows + 1
    /\ qBody[2].value = MaxRows /\ qBody[3] = [tok |-> ","]

\* The rows within the bounds whose value cannot be extracted.
Unreadable == {k \in InRange : qIn.table[k] = "null"}

\* C27: a row whose cursor advance succeeded but whose value extraction
\* failed is omitted from the output, does not abort the stream and does
\* not change the placement of the commas, wherever it occurs (first,
\* middle, last, several in a row); the rows after it are still emitted.
C27_SkippedRow ==
    (Streamed /\ NoWriteFailed) =>
        /\ advances = Cardinality(InRange) + 1
        /\ Cardinality({i \in 1..Len(qLog) : qLog[i] = "Error retrieving item"})
              = Cardinality(Unreadable)
        /\ \A k \in Unreadable :
              /\ \A i \in 1..Len(qBody) :
                    DOMAIN qBody[i] = {"time", "value"} => qBody[i].value # k
              /\ \A x \in Emitted :
                    x < k => \E i \in 1..Len(qBody) :
                                /\ DOMAIN qBody[i] = {"time", "value"}
                                /\ qBody[i].value = x
        /\ qBody[1] = [tok |-> "["] /\ qBody[Len(qBody)] = [tok |-> "]"]
        /\ \A i \in 1..Len(qBody) :
              qBody[i] = [tok |-> ","] =>
                  /\ DOMAIN qBody[i - 1] = {"time", "value"}
                  /\ DOMAIN qBody[i + 1] = {"time", "value"}
        /\ \A i \in 1..(Len(qBody) - 1) :
              DOMAIN qBody[i] = {"time", "value"} =>
                  qBody[i + 1] \in {[tok |-> ","], [tok |-> "]"]}

C27_Witness ==
    /\ Streamed /\ NoWriteFailed
    /\ qIn.start = NilPtr /\ qIn.until = NilPtr
    /\ qIn.table[MaxRows] = "null" /\ qIn.table[1] = "null"
    /\ \A k \in 2..(MaxRows - 1) : qIn.table[k] = "float"
    /\ Len(qBody) = 2 * (MaxRows - 2) + 1
    /\ qBody[2].value = MaxRows - 1

\* The write numbered qIn.failAt has been made, and has failed.
WriteFailed == qIn.failAt # 0 /\ wcount >= qIn.failAt

\* What has been written is the beginning of the array of the emitted
\* rows: token for token, but for a last item written in part.
RECURSIVE IsArrayPrefix(_, _, _)
IsArrayPrefix(b, i, left) ==
    IF i > Len(b) THEN TRUE
    ELSE LET n == Cardinality(Emitted)
             item == DOMAIN b[i] = {"time", "value"}
             part == DOMAIN b[i] = {"part"}
             row == IF item THEN b[i] ELSE b[i].part
         IN  IF i = 1 THEN b[1] = [tok |-> "["] /\ IsArrayPrefix(b, 2, Emitted)
             ELSE IF item \/ part
             THEN /\ left # {}
                  /\ row.value = CHOOSE k \in left : \A x \in left : x <= k
                  /\ part => i = Len(b)
                  /\ b[i - 1] \in {[tok |-> "["], [tok |-> ","]}
                  /\ IsArrayPrefix(b, i + 1, left \ {row.value})
             ELSE IF b[i] = [tok |-> ","]
             THEN /\ left # {} /\ left # Emitted
                  /\ DOMAIN b[i - 1] = {"time", "value"}
                  /\ IsArrayPrefix(b, i + 1, left)
             ELSE /\ b[i] = [tok |-> "]"]
                  /\ left = {} /\ i = Len(b)

\* C28: a write failure aborts the stream at once: after the first failed
\* write (of the opening bracket, a comma, an item or the closing bracket)
\* the streamer makes no further write and does not advance the cursor
\* again, so that the body is a beginning of the full output.
C28_WriteFailureAborts ==
    /\ [](WriteFailed => /\ qpc = "done" /\ wcount = qIn.failAt
                         /\ IsArrayPrefix(qBody, 1, Emitted)
                         /\ ~FullArray(qBody))
    /\ [][WriteFailed => /\ wcount' = wcount /\ advances' = advances
                         /\ qBody' = qBody /\ cursor' = cursor]_vars

C28_Witness ==
    /\ WriteFailed /\ qpc = "done"
    /\ qIn.table = [k \in 1..MaxRows |-> "float"]
    /\ qIn.start = NilPtr /\ qIn.until = NilPtr
    /\ qIn.failAt = 4
    /\ Len(qBody) = 4 /\ DOMAIN qBody[4] = {"part"}
    /\ Len(cursor) = MaxRows - 2 /\ advances = 2

\* The request texts that are RFC 3339 timestamps, with their instants.
ValidTexts ==
    {<<TextT0, 1700000000>>, <<TextT0Plus1, 1700000001>>,
     <<TextBeforeRows, 1700000000 - 3601>>}

\* The bound is absent, or present and a valid timestamp.
BoundOK(p) == p.nil \/ \E v \in ValidTexts : v[1] = p.v

\* The instant of a bound that is present and valid.
BoundValue(p) == (CHOOSE v \in ValidTexts : v[1] = p.v)[2]

\* C29: for each of the four combinations of start and until being present
\* or absent the storage query built is well-formed and restricts the rows
\* to exactly the inclusive bounds supplied (time >= start when start is
\* given, time <= until when until is given, no bound otherwise); a request
\* with only until is a valid query bounded above.
C29_QueryBounds ==
    (qpc # "start" /\ ~qIn.down /\ BoundOK(qIn.start) /\ BoundOK(qIn.until)) =>
        /\ Len(issued) = 1
        /\ WellFormed(issued[1].query)
        /\ qStatus # 500
        /\ qpc = "open" =>
              LET rows == {k \in DOMAIN qIn.table :
                              /\ qIn.table[k] # "none"
                              /\ qIn.start.nil \/ T0 + (k - 2) * 3600 >= BoundValue(qIn.start)
                              /\ qIn.until.nil \/ T0 + (k - 2) * 3600 <= BoundValue(qIn.until)}
              IN  /\ {cursor[i].time : i \in 1..Len(cursor)} = {T0 + (k - 2) * 3600 : k \in rows}
                  /\ Len(cursor) = Cardinality(rows)
                  /\ \A i \in 1..(Len(cursor) - 1) : cursor[i].time > cursor[i + 1].time

\* The request texts that are no RFC 3339 timestamps.
Malformed(p) == ~p.nil /\ p.v \in {TextNoT, TextFeb30, TimeDigits, <<>>}

\* C30: a request whose start or until is present but no valid RFC 3339
\* timestamp is answered 400 with a message envelope; no storage query is
\* issued and no byte of the array is written.
C30_BadRequest ==
    /\ \A p \in StartSample \cup UntilSample : Malformed(p) <=> ~BoundOK(p)
    /\ (qpc # "start" /\ (Malformed(qIn.start) \/ Malformed(qIn.until))) =>
          /\ qpc = "done" /\ qStatus = 400
          /\ Len(qBody) = 1 /\ DOMAIN qBody[1] = {"message"}
          /\ qBody[1].message[1] =
                (IF Malformed(qIn.start) THEN "failed to parse start time"
                 ELSE "failed to parse until time")
          /\ issued = <<>> /\ wcount = 0 /\ advances = 0

C30_Witness ==
    /\ qpc = "done" /\ qStatus = 400
    /\ qIn.start = Ptr(TextT0Plus1) /\ qIn.until = Ptr(TextFeb30)
    /\ qIn.table = [k \in 1..MaxRows |-> "float"]
    /\ qBody = <<[message |-> <<"failed to parse until time", "failed to parse time">>]>>
    /\ issued = <<>>

\* The storage query of the run has been issued and has failed.
QueryFailed ==
    /\ Len(issued) = 1
    /\ qIn.down \/ ~WellFormed(issued[1].query)

\* The opening bracket has been written to the response.
BracketWritten == qBody # <<>> /\ qBody[1] = Byte("[")

\* The response is a failed request: an error status, or a message
\* envelope in its body.
FailedRequest(st, b) ==
    \/ st \in {400, 500}
    \/ \E j \in 1..Len(b) : "message" \in DOMAIN b[j]

\* C31: a query or storage failure that occurs before streaming starts is
\* answered 500 with the message envelope, nothing of the array being
\* written; once the opening bracket has been written the status is 200,
\* and no later step, a row that cannot be read included, makes the
\* response a failed request.
C31_FailureStatus ==
    /\ [](QueryFailed =>
            /\ qpc = "done" /\ qStatus = 500
            /\ Len(qBody) = 1 /\ DOMAIN qBody[1] = {"message"}
            /\ qBody[1].message[1] = "failed to query datapoints"
            /\ wcount = 0 /\ advances = 0)
    /\ [](BracketWritten => qStatus = 200 /\ ~FailedRequest(qStatus, qBody))
    /\ [][BracketWritten => ~FailedRequest(qStatus', qBody')]_vars

\* The storage is down for a request whose bounds are both valid: 500.
C31_Witness ==
    /\ qpc = "done" /\ qStatus = 500
    /\ qIn.down
    /\ qIn.start = Ptr(TextT0) /\ qIn.until = Ptr(TextT0)
    /\ qIn.table = [k \in 1..MaxRows |-> "float"]
    /\ Len(issued) = 1 /\ WellFormed(issued[1].query)
    /\ qBody = <<[message |-> <<"failed to query datapoints", "failed to query datapoints",
                                "failed to execute query", "connection refused">>]>>

\* README, Configuration Options: the default documented for each field
\* (token and org have none).
Documented ==
    [InfluxDBClient |-> [Host |-> "http://influxdb3-core:8181", Token |-> "",
                         Database |-> "dev", Org |-> ""],
     DataServerClient |-> [Host |-> "http://localhost:28462"],
     HTTPServer |-> [Port |-> ":8080"],
     DataServerCollector |-> [PollIntervalMs |-> 1000]]

\* The file holds the key of the leaf field l, and the value it holds.
Holds(l) == FieldKey[l[2]] \in DOMAIN Section(fIn.doc, l[1])
Held(l) == Section(fIn.doc, l[1])[FieldKey[l[2]]]

\* The file cannot be loaded: there is none, it is no JSON, or it gives a
\* field a value that is not of the field's kind.
Unloadable == fIn.kind \in {"missing", "invalid"} \/ Mistyped(fIn.doc) # {}

C33_OneInvocationInFlight ==
    Cardinality({s \in StartThreads : inflight[s] > 0}) <= 1

\* C34: a redundant Start() call, made while a start() run holds the
\* startOnce, invokes no task and does not block for good: it returns.
C34_RedundantStartReturns ==
    /\ [](\A s \in StartThreads : spc[s] = "blocked" => inflight[s] = 0 /\ ticker[s] = "none")
    /\ \A s \in StartThreads : (spc[s] = "blocked") ~> (spc[s] = "returned")

\* The latest Stop() call made, and the Start() calls made after a Stop()
\* on an idle scheduler has returned, with no Stop() call since.
LatestStop == CHOOSE t \in StopThreads : tpc[t] # "idle" /\ \A u \in StopThreads : u > t => tpc[u] = "idle"
AfterIdleStop(s) ==
    /\ spc[s] # "idle" /\ stopSince[s] = "no"
    /\ stopCalls > 0
    /\ tpc[LatestStop] = "done" /\ idleStop[LatestStop]

\* C35: Stop() on an idle scheduler returns without blocking (it finds a
\* Once it need not wait for and a stop channel with room that is open)
\* and leaves no stop signal behind: a Start() made afterwards is not
\* refused, and until a later Stop() its loop runs, its ticker is active
\* and its stop-listener has no signal to receive.
C35_IdleStop ==
    /\ \A t \in StopThreads :
          idleStop[t] =>
             /\ tpc[t] = "do" => stopOnceSt[tOnce[t]] # "running"
             /\ tpc[t] = "stop" => ~chanClosed[stopCh] /\ chanLen[stopCh] = 0
    /\ \A s \in StartThreads :
          AfterIdleStop(s) =>
             /\ spc[s] \notin {"blocked", "returned"}
             /\ spc[s] \in InLoop =>
                   /\ ticker[s] = "active"
                   /\ lpc[s] \in {"select", "recv"}
                   /\ lpc[s] = "select" => ~chanClosed[stopCh] /\ chanLen[stopCh] = 0
                   /\ lpc[s] = "recv" => ~chanClosed[lCh[s]] /\ chanLen[lCh[s]] = 0

\* Start -> Stop -> Stop on the stopped scheduler -> Start: the second
\* generation is invoking the task on a tick.
C35_Witness ==
    /\ \A t \in StopThreads : tpc[t] = "done"
    /\ ~idleStop[1] /\ idleStop[2]
    /\ \E s \in StartThreads :
          /\ AfterIdleStop(s)
          /\ spc[s] = "tick_task" /\ ticker[s] = "active" /\ lpc[s] = "recv"

\* C36: after a shutdown signal the process completes its shutdown: the
\* wait on the collector goroutine that follows dataCollector.Stop()
\* returns, and the HTTP server shutdown and the storage client close are
\* reached.
C36_ShutdownCompletes ==
    /\ (mpc = "stop") ~> (mpc = "shutdown")
    /\ (mpc = "stop") ~> (mpc = "done")

====
